---- MODULE Spec2Model ----
(***************************************************************************)
(* Model of the Markdown-to-plain-text converter (markdown-converter.ts).  *)
(*                                                                         *)
(* A JavaScript string is a sequence of UTF-16 code units (naturals); a    *)
(* code point above U+FFFF is two code units, a surrogate pair.  A token   *)
(* of the marked lexer is a record with a "type" field.                    *)
(***************************************************************************)
EXTENDS Integers, Sequences, FiniteSets, TLC

VARIABLES
    pc,        \* "call" before the call has run, "done" after it
    op,        \* the function called
    markdown,  \* the string argument
    settings,  \* the MarkdownConversionSettings argument
    tokens,    \* the token sequence lexed or rendered
    args,      \* listDepth, ordered and index of a list call
    outcome,   \* "returned" or "threw"
    result,    \* the value returned
    log,       \* the rules and stages run, in order
    calls,     \* the calls of a behaviour of several calls, oldest first
    store,             \* the plugin's stored data (data.json)
    heap,              \* the customRules arrays in memory, by reference
    presets,           \* pluginSettings.presets
    presetCommandIds,  \* the plugin's presetCommandIds
    commands,          \* the commands registered with the host
    saved,             \* TRUE if the last handler called saveSettings
    events             \* the number of handlers run

\* the state of the plugin
pluginVars == <<store, heap, presets, presetCommandIds, commands, saved, events>>

\* the state of a call of the converter
callVars == <<markdown, settings, tokens, outcome, result, log, calls>>

vars == <<pc, op, markdown, settings, tokens, args, outcome, result, log, calls,
          store, heap, presets, presetCommandIds, commands, saved, events>>

-----------------------------------------------------------------------------
(* Bounds of the model                                                     *)

\* longest custom rule list drawn for a call
MaxRules == 2
\* deepest list depth a list item is rendered at
MaxListDepth == 2
\* most items in one list
MaxItems == 2
\* largest zero-based index handed to getBullet
MaxIndex == 11
\* most pieces in a text handed to a Unicode conversion
MaxTextLen == 3
\* most calls in a behaviour of several calls
MaxCalls == 3
\* most handlers of the plugin run in one behaviour, onload included
MaxEvents == 3

-----------------------------------------------------------------------------
(* String literals of the source, as code-unit sequences                   *)

NL == <<10>>
SPACE == <<32>>
STARS2 == <<42, 42>>
STAR1 == <<42>>
TILDES2 == <<126, 126>>
INDENT_UNIT == <<32, 32>>
DOT == <<46>>

\* letters used to build inputs
La == <<97>>
Lb == <<98>>
Lc == <<99>>
Ld == <<100>>
UA == <<65>>

-----------------------------------------------------------------------------
(* JavaScript string primitives                                            *)

RECURSIVE Concat(_)
\* Array.prototype.join("") over a sequence of strings
Concat(ss) == IF ss = <<>> THEN <<>> ELSE Head(ss) \o Concat(Tail(ss))

RECURSIVE Join(_, _)
\* Array.prototype.join(sep)
Join(ss, sep) ==
    IF ss = <<>> THEN <<>>
    ELSE IF Len(ss) = 1 THEN ss[1]
    ELSE ss[1] \o sep \o Join(Tail(ss), sep)

RECURSIVE SplitFrom(_, _, _)
SplitFrom(s, ch, cur) ==
    IF s = <<>> THEN <<cur>>
    ELSE IF Head(s) = ch THEN <<cur>> \o SplitFrom(Tail(s), ch, <<>>)
    ELSE SplitFrom(Tail(s), ch, Append(cur, Head(s)))

\* String.prototype.split on a one-character separator
Split(s, ch) == SplitFrom(s, ch, <<>>)

RECURSIVE Repeat(_, _)
\* String.prototype.repeat
Repeat(s, n) == IF n <= 0 THEN <<>> ELSE s \o Repeat(s, n - 1)

\* The white space String.prototype.trim removes (tab, LF, VT, FF, CR, space, NBSP, BOM)
IsWhiteSpace(c) == c \in {9, 10, 11, 12, 13, 32, 160, 65279}

RECURSIVE TrimStart(_)
TrimStart(s) ==
    IF s # <<>> /\ IsWhiteSpace(Head(s)) THEN TrimStart(Tail(s)) ELSE s

RECURSIVE TrimEnd(_)
TrimEnd(s) ==
    IF s # <<>> /\ IsWhiteSpace(s[Len(s)]) THEN TrimEnd(SubSeq(s, 1, Len(s) - 1)) ELSE s

\* String.prototype.trim
Trim(s) == TrimEnd(TrimStart(s))

RECURSIVE NumToStr(_)
\* template-literal formatting of a non-negative integer: its decimal digits
NumToStr(n) ==
    IF n < 10 THEN <<48 + n>> ELSE NumToStr(n \div 10) \o <<48 + (n % 10)>>

\* Canonicalize of a non-unicode, ignoreCase RegExp: simple upper-casing; on the
\* code units used here only the ASCII letters change
Canonicalize(c, ci) == IF ci /\ c >= 97 /\ c <= 122 THEN c - 32 ELSE c

\* the literal `pat` matches `s` at position i
MatchesAt(s, i, pat, ci) ==
    /\ i + Len(pat) - 1 <= Len(s)
    /\ \A k \in 1..Len(pat) : Canonicalize(s[i + k - 1], ci) = Canonicalize(pat[k], ci)

RECURSIVE ReplaceFrom(_, _, _, _, _)
ReplaceFrom(s, i, pat, rep, ci) ==
    IF i > Len(s) THEN <<>>
    ELSE IF MatchesAt(s, i, pat, ci)
         THEN rep \o ReplaceFrom(s, i + Len(pat), pat, rep, ci)
         ELSE <<s[i]>> \o ReplaceFrom(s, i + 1, pat, rep, ci)

\* String.prototype.replace with a global RegExp whose source is the non-empty
\* literal `pat`, and a replacement without "$": every leftmost non-overlapping
\* match is replaced
ReplaceAll(s, pat, rep, ci) == ReplaceFrom(s, 1, pat, rep, ci)

-----------------------------------------------------------------------------
(* Regular expressions of the custom rules, on the pattern fragment of the *)
(* model: literal characters, escaped characters, the class \s, the line   *)
(* assertion ^, one capturing group, and the greedy quantifiers * and ?    *)
(* after a character or a class.  The flags are "gm" or "gmi".             *)

\* the character at position i of the pattern follows an unpaired backslash
RECURSIVE IsEscaped(_, _)
IsEscaped(p, i) == i > 1 /\ p[i - 1] = 92 /\ ~IsEscaped(p, i - 1)

\* WhiteSpace and LineTerminator, the characters of the class \s
IsRegExpSpace(c) ==
    \/ c \in {9, 10, 11, 12, 13, 32, 160, 5760, 8232, 8233, 8239, 8287, 12288, 65279}
    \/ (c >= 8192 /\ c <= 8202)

\* LineTerminator: with the m flag, ^ matches after one of these
IsLineTerminator(c) == c \in {10, 13, 8232, 8233}

\* The terms of the pattern from position i on; g is 1 inside the group, else 0.
\* A term is an assertion, a character or a class, with its quantifier.
RECURSIVE ParseFrom(_, _, _)
ParseFrom(p, i, g) ==
    IF i > Len(p) THEN <<>>
    ELSE IF p[i] = 40 THEN ParseFrom(p, i + 1, 1)
    ELSE IF p[i] = 41 THEN ParseFrom(p, i + 1, 0)
    ELSE LET esc == p[i] = 92 /\ i < Len(p)
             w == IF esc THEN 2 ELSE 1
             kind == IF esc THEN (IF p[i + 1] = 115 THEN "space" ELSE "char")
                     ELSE IF p[i] = 94 THEN "bol" ELSE "char"
             c == IF esc THEN p[i + 1] ELSE p[i]
             q == IF i + w > Len(p) THEN "one"
                  ELSE IF p[i + w] = 42 THEN "star"
                  ELSE IF p[i + w] = 63 THEN "opt" ELSE "one"
             next == i + w + (IF q = "one" THEN 0 ELSE 1)
         IN  <<[kind |-> kind, c |-> c, quant |-> q, group |-> g]>>
                 \o ParseFrom(p, next, g)

\* the term consumes the character at position i
TermMatches(a, s, i, ci) ==
    /\ i <= Len(s)
    /\ IF a.kind = "space" THEN IsRegExpSpace(s[i])
       ELSE Canonicalize(s[i], ci) = Canonicalize(a.c, ci)

\* the number of characters from position i on that the term consumes in a row
RECURSIVE RunLength(_, _, _, _)
RunLength(a, s, i, ci) ==
    IF TermMatches(a, s, i, ci) THEN 1 + RunLength(a, s, i + 1, ci) ELSE 0

NoMatch == [ok |-> FALSE, ends |-> <<>>]

\* the fewest characters a term may consume
MinTake(a) == IF a.kind # "bol" /\ a.quant = "one" THEN 1 ELSE 0

\* the most characters the term consumes at position i; -1 when it cannot match
MaxTake(a, s, i, ci) ==
    IF a.kind = "bol" THEN (IF i = 1 \/ IsLineTerminator(s[i - 1]) THEN 0 ELSE -1)
    ELSE IF a.quant = "one" THEN (IF TermMatches(a, s, i, ci) THEN 1 ELSE -1)
    ELSE IF a.quant = "opt" THEN (IF TermMatches(a, s, i, ci) THEN 1 ELSE 0)
    ELSE RunLength(a, s, i, ci)

\* Backtracking match of the terms k.. at position i, term k taking n
\* characters: the position after each term.  When the rest does not match,
\* term k takes one character less (a quantifier is greedy).
RECURSIVE MatchFrom(_, _, _, _, _, _)
MatchFrom(atoms, k, s, i, ci, n) ==
    IF n < MinTake(atoms[k]) THEN NoMatch
    ELSE LET r == IF k = Len(atoms) THEN [ok |-> TRUE, ends |-> <<>>]
                  ELSE MatchFrom(atoms, k + 1, s, i + n, ci,
                                 MaxTake(atoms[k + 1], s, i + n, ci))
         IN  IF r.ok THEN [ok |-> TRUE, ends |-> <<i + n>> \o r.ends]
             ELSE MatchFrom(atoms, k, s, i, ci, n - 1)

\* the match of the whole pattern at position i
MatchTerms(atoms, s, i, ci) ==
    IF atoms = <<>> THEN [ok |-> TRUE, ends |-> <<>>]
    ELSE MatchFrom(atoms, 1, s, i, ci, MaxTake(atoms[1], s, i, ci))

\* the text captured by the group in a match that starts at i
Capture(atoms, s, i, ends) ==
    LET inGroup == { k \in 1..Len(atoms) : atoms[k].group = 1 }
    IN  IF inGroup = {} THEN <<>>
        ELSE LET first == CHOOSE k \in inGroup : \A j \in inGroup : k <= j
                 last == CHOOSE k \in inGroup : \A j \in inGroup : k >= j
                 from == IF first = 1 THEN i ELSE ends[first - 1]
             IN  SubSeq(s, from, ends[last] - 1)

\* GetSubstitution: $$ is "$", $& the match, $1 the capture when the pattern has
\* a group; any other "$" stands for itself
RECURSIVE GetSubstitution(_, _, _, _, _)
GetSubstitution(rep, j, matched, capture, hasGroup) ==
    IF j > Len(rep) THEN <<>>
    ELSE IF rep[j] = 36 /\ j < Len(rep) /\ rep[j + 1] = 36
         THEN <<36>> \o GetSubstitution(rep, j + 2, matched, capture, hasGroup)
    ELSE IF rep[j] = 36 /\ j < Len(rep) /\ rep[j + 1] = 38
         THEN matched \o GetSubstitution(rep, j + 2, matched, capture, hasGroup)
    ELSE IF rep[j] = 36 /\ j < Len(rep) /\ rep[j + 1] = 49 /\ hasGroup
         THEN capture \o GetSubstitution(rep, j + 2, matched, capture, hasGroup)
    ELSE <<rep[j]>> \o GetSubstitution(rep, j + 1, matched, capture, hasGroup)

\* one step of the replace loop at a match m that ends before position e: the
\* text written and the position the search goes on from.  After an empty
\* match the next character is copied and the search moves one position on.
MatchedStep(s, i, atoms, rep, hasGroup, m, e) ==
    [text |-> GetSubstitution(rep, 1, SubSeq(s, i, e - 1), Capture(atoms, s, i, m.ends),
                              hasGroup)
                  \o (IF e = i /\ i <= Len(s) THEN <<s[i]>> ELSE <<>>),
     next |-> IF e = i THEN i + 1 ELSE e]

\* one step of the replace loop at position i, m being the match tried there
StepAt(s, i, atoms, rep, hasGroup, m) ==
    IF ~m.ok THEN [text |-> IF i <= Len(s) THEN <<s[i]>> ELSE <<>>, next |-> i + 1]
    ELSE MatchedStep(s, i, atoms, rep, hasGroup, m,
                     IF atoms = <<>> THEN i ELSE m.ends[Len(atoms)])

\* the replace loop of a global RegExp from position i on
RECURSIVE RegExpReplaceFrom(_, _, _, _, _, _)
RegExpReplaceFrom(s, i, atoms, rep, ci, hasGroup) ==
    IF i > Len(s) + 1 THEN <<>>
    ELSE LET st == StepAt(s, i, atoms, rep, hasGroup, MatchTerms(atoms, s, i, ci))
         IN  st.text \o RegExpReplaceFrom(s, st.next, atoms, rep, ci, hasGroup)

\* s.replace(new RegExp(pattern, ci ? "gmi" : "gm"), rep)
RegExpReplace(s, pattern, rep, ci) ==
    RegExpReplaceFrom(s, 1, ParseFrom(pattern, 1, 0), rep, ci,
                      \E i \in 1..Len(pattern) : pattern[i] = 40 /\ ~IsEscaped(pattern, i))

-----------------------------------------------------------------------------
(* Custom rules                                                            *)

\* new RegExp(pattern, flags) on the pattern fragment of the model: an
\* unescaped "[" (91) opens a character class that nothing in the fragment
\* closes ("]" = 93), a SyntaxError
RegExpCompiles(pattern) ==
    \A i \in 1..Len(pattern) :
        (pattern[i] = 91 /\ ~IsEscaped(pattern, i))
            => \E j \in (i + 1)..Len(pattern) : pattern[j] = 93

\* unescapeString: four global replacements, one after the other
unescapeString(str) ==
    LET s1 == ReplaceAll(str, <<92, 110>>, <<10>>, FALSE)
        s2 == ReplaceAll(s1, <<92, 116>>, <<9>>, FALSE)
        s3 == ReplaceAll(s2, <<92, 114>>, <<13>>, FALSE)
    IN  ReplaceAll(s3, <<92, 92>>, <<92>>, FALSE)

\* the try block of applyCustomRules lets the SyntaxError of an uncompilable
\* pattern escape (no catch)
ApplyRule_NoCatch(acc, rule) ==
    IF RegExpCompiles(rule.pattern)
    THEN [text |-> RegExpReplace(acc, rule.pattern, unescapeString(rule.replacement),
                              rule.caseInsensitive),
          event |-> "applied", threw |-> FALSE]
    ELSE [text |-> acc, event |-> "warn", threw |-> TRUE]

\* One enabled rule: the try/catch of applyCustomRules.  A pattern that does not
\* compile throws inside the try; the catch logs a warning and the accumulator
\* is left as it was.
ApplyRule(acc, rule) ==
    IF RegExpCompiles(rule.pattern)
    THEN [text |-> RegExpReplace(acc, rule.pattern, unescapeString(rule.replacement),
                              rule.caseInsensitive),
          event |-> "applied", threw |-> FALSE]
    ELSE [text |-> acc, event |-> "warn", threw |-> FALSE]

RECURSIVE RulesLoop(_, _, _, _)
\* the for loop of applyCustomRules from rule i on; `stage` tags the log entries
RulesLoop(acc, rules, i, stage) ==
    IF i > Len(rules) THEN [result |-> acc, log |-> <<>>, threw |-> FALSE]
    ELSE IF ~rules[i].enabled THEN RulesLoop(acc, rules, i + 1, stage)
    ELSE LET step == ApplyRule(acc, rules[i])
             entry == [stage |-> stage, event |-> step.event, rule |-> rules[i].name,
                       text |-> step.text]
         IN  IF step.threw
             THEN [result |-> acc, log |-> <<entry>>, threw |-> TRUE]
             ELSE LET rest == RulesLoop(step.text, rules, i + 1, stage)
                  IN  [result |-> rest.result, log |-> <<entry>> \o rest.log,
                       threw |-> rest.threw]

\* the loop visits the rules from the last to the first
applyCustomRules_Reversed(text, rules, stage) ==
    RulesLoop(text, [i \in 1..Len(rules) |-> rules[Len(rules) + 1 - i]], 1, stage)

\* applyCustomRules(text, rules)
applyCustomRules(text, rules, stage) == RulesLoop(text, rules, 1, stage)

-----------------------------------------------------------------------------
(* Unicode text conversion                                                 *)

IsHighSurrogate(c) == c >= 55296 /\ c <= 56319
IsLowSurrogate(c) == c >= 56320 /\ c <= 57343

RECURSIVE Chars(_)
\* [...text]: the string iterator yields one string per code point, a surrogate
\* pair as one two-unit string, a lone surrogate as a one-unit string
Chars(s) ==
    IF s = <<>> THEN <<>>
    ELSE IF Len(s) >= 2 /\ IsHighSurrogate(s[1]) /\ IsLowSurrogate(s[2])
         THEN <<SubSeq(s, 1, 2)>> \o Chars(SubSeq(s, 3, Len(s)))
         ELSE <<SubSeq(s, 1, 1)>> \o Chars(Tail(s))

\* char.codePointAt(0) of a string the iterator yielded
CodePointAt0(char) ==
    IF Len(char) = 2
    THEN (char[1] - 55296) * 1024 + (char[2] - 56320) + 65536
    ELSE char[1]

\* String.fromCodePoint
FromCodePoint(cp) ==
    IF cp < 65536 THEN <<cp>>
    ELSE <<55296 + ((cp - 65536) \div 1024), 56320 + ((cp - 65536) % 1024)>>

\* the digits are left as they are
BoldChar_NoDigits(char) ==
    LET code == CodePointAt0(char)
    IN  IF code >= 65 /\ code <= 90 THEN FromCodePoint(code - 65 + 119808)
        ELSE IF code >= 97 /\ code <= 122 THEN FromCodePoint(code - 97 + 119834)
        ELSE char

\* the callback of convertToBoldUnicode's map
BoldChar(char) ==
    LET code == CodePointAt0(char)
    IN  IF code >= 65 /\ code <= 90 THEN FromCodePoint(code - 65 + 119808)
        ELSE IF code >= 97 /\ code <= 122 THEN FromCodePoint(code - 97 + 119834)
        ELSE IF code >= 48 /\ code <= 57 THEN FromCodePoint(code - 48 + 120782)
        ELSE char

\* the lower-case letters start at the capital's code point
ItalicChar_SameBase(char) ==
    LET code == CodePointAt0(char)
    IN  IF code >= 65 /\ code <= 90 THEN FromCodePoint(code - 65 + 119860)
        ELSE IF code >= 97 /\ code <= 122 THEN FromCodePoint(code - 97 + 119860)
        ELSE char

\* the callback of convertToItalicUnicode's map
ItalicChar(char) ==
    LET code == CodePointAt0(char)
    IN  IF code >= 65 /\ code <= 90 THEN FromCodePoint(code - 65 + 119860)
        ELSE IF code >= 97 /\ code <= 122 THEN FromCodePoint(code - 97 + 119886)
        ELSE char

convertToBoldUnicode(text) ==
    LET cs == Chars(text) IN Concat([i \in 1..Len(cs) |-> BoldChar(cs[i])])

convertToItalicUnicode(text) ==
    LET cs == Chars(text) IN Concat([i \in 1..Len(cs) |-> ItalicChar(cs[i])])

\* the combining stroke after every code unit: a surrogate pair is split
convertToStrikethrough_Units(text) ==
    Concat([i \in 1..Len(text) |-> <<text[i], 822>>])

convertToStrikethrough(text) ==
    LET cs == Chars(text) IN Concat([i \in 1..Len(cs) |-> cs[i] \o <<822>>])

-----------------------------------------------------------------------------
(* Token rendering                                                         *)

\* a task item whose checkbox is enabled gets the bullet of a plain item
getBullet_TaskAsBullet(token, s, ordered, index) ==
    IF ordered THEN [none |-> FALSE, text |-> NumToStr(index + 1) \o DOT]
    ELSE IF ~s.enableBullet THEN [none |-> TRUE, text |-> <<>>]
    ELSE [none |-> FALSE, text |-> s.bulletChar]

\* the ordinal is the zero-based index itself
getBullet_ZeroBased(token, s, ordered, index) ==
    IF token.task
    THEN IF ~s.enableCheckbox THEN [none |-> TRUE, text |-> <<>>]
         ELSE [none |-> FALSE,
               text |-> IF token.checked THEN s.checkboxChecked ELSE s.checkboxUnchecked]
    ELSE IF ordered THEN [none |-> FALSE, text |-> NumToStr(index) \o DOT]
    ELSE IF ~s.enableBullet THEN [none |-> TRUE, text |-> <<>>]
    ELSE [none |-> FALSE, text |-> s.bulletChar]

\* enableBullet is tested first, for every kind of item
getBullet_BulletFirst(token, s, ordered, index) ==
    IF ~s.enableBullet THEN [none |-> TRUE, text |-> <<>>]
    ELSE IF token.task
    THEN IF ~s.enableCheckbox THEN [none |-> TRUE, text |-> <<>>]
         ELSE [none |-> FALSE,
               text |-> IF token.checked THEN s.checkboxChecked ELSE s.checkboxUnchecked]
    ELSE IF ordered THEN [none |-> FALSE, text |-> NumToStr(index + 1) \o DOT]
    ELSE [none |-> FALSE, text |-> s.bulletChar]

\* getBullet: the marker of a list item, or null (none) for no marker
getBullet(token, s, ordered, index) ==
    IF token.task
    THEN IF ~s.enableCheckbox THEN [none |-> TRUE, text |-> <<>>]
         ELSE [none |-> FALSE,
               text |-> IF token.checked THEN s.checkboxChecked ELSE s.checkboxUnchecked]
    ELSE IF ordered THEN [none |-> FALSE, text |-> NumToStr(index + 1) \o DOT]
    ELSE IF ~s.enableBullet THEN [none |-> TRUE, text |-> <<>>]
    ELSE [none |-> FALSE, text |-> s.bulletChar]

\* the prefixes record of renderHeading, then `prefixes[depth] || ""`
HeadingPrefix(s, depth) ==
    CASE depth = 1 -> s.heading1Prefix
      [] depth = 2 -> s.heading2Prefix
      [] depth = 3 -> s.heading3Prefix
      [] depth = 4 -> s.heading4Prefix
      [] OTHER -> <<>>

\* the heading line with the toggle read the wrong way round
HeadingLine_Inverted(s, depth, text) ==
    IF s.enableHeadings THEN text \o NL
    ELSE HeadingPrefix(s, depth) \o SPACE \o text \o NL

\* renderHeading after its children are rendered
HeadingLine(s, depth, text) ==
    IF ~s.enableHeadings THEN text \o NL
    ELSE HeadingPrefix(s, depth) \o SPACE \o text \o NL

\* the value undefined where a string is expected: no string equals it
undefined == <<-1>>

\* Array.prototype.join writes an undefined element as the empty string
JoinElement(v) == IF v = undefined THEN <<>> ELSE v

\* the switch of renderStrong / renderEm / renderDel after the children are
\* rendered to `text`; `converted` is the glyph mapping of `text`
\* the switch has no case for 'remove'
Decorate_NoRemove(mode, wrapper, text, converted) ==
    CASE mode = "keep" -> wrapper \o text \o wrapper
      [] mode = "unicode" -> converted
      [] OTHER -> undefined

\* no case of the switch matches any other mode and the function ends without
\* a return statement: the call evaluates to undefined
Decorate(mode, wrapper, text, converted) ==
    CASE mode = "keep" -> wrapper \o text \o wrapper
      [] mode = "unicode" -> converted
      [] mode = "remove" -> text
      [] OTHER -> undefined

\* ctx.settings[field] where the field is a decoration mode: a property the
\* settings object does not have reads as undefined
ModeOf(s, field) == IF field \in DOMAIN s THEN s[field] ELSE "undefined"

\* the item line is indented even when there is no marker
ItemLine_AlwaysIndent(bullet, listDepth, content, nested) ==
    IF bullet.none THEN Repeat(INDENT_UNIT, listDepth) \o content \o NL \o nested
    ELSE Repeat(INDENT_UNIT, listDepth) \o bullet.text \o SPACE \o content \o NL \o nested

\* the two return statements of renderListItem
ItemLine(bullet, listDepth, content, nested) ==
    IF bullet.none THEN content \o NL \o nested
    ELSE Repeat(INDENT_UNIT, listDepth) \o bullet.text \o SPACE \o content \o NL \o nested

\* the empty lines are left without the prefix
PrefixLines_NonEmpty(lines, prefix) ==
    [i \in 1..Len(lines) |-> IF lines[i] # <<>> THEN prefix \o lines[i] ELSE lines[i]]

\* map(line => prefix + line) of renderCode
PrefixLines(lines, prefix) == [i \in 1..Len(lines) |-> prefix \o lines[i]]

\* every line gets the prefix, the empty ones too
PrefixNonEmptyLines_All(lines, prefix) == [i \in 1..Len(lines) |-> prefix \o lines[i]]

\* map(line => line ? prefix + line : line) of renderBlockquote
PrefixNonEmptyLines(lines, prefix) ==
    [i \in 1..Len(lines) |-> IF lines[i] # <<>> THEN prefix \o lines[i] ELSE lines[i]]

RECURSIVE renderTokens(_, _)
RECURSIVE renderToken(_, _)
RECURSIVE renderList(_, _)
RECURSIVE renderListItem(_, _, _, _)

renderHeading(token, ctx) ==
    HeadingLine(ctx.settings, token.depth, renderTokens(token.tokens, ctx))

renderParagraph(token, ctx) == renderTokens(token.tokens, ctx) \o NL

renderText(token, ctx) ==
    IF "tokens" \in DOMAIN token THEN renderTokens(token.tokens, ctx) ELSE token.text

renderStrong(token, ctx) ==
    LET text == renderTokens(token.tokens, ctx)
    IN  Decorate(ModeOf(ctx.settings, "boldMode"), STARS2, text, convertToBoldUnicode(text))

renderEm(token, ctx) ==
    LET text == renderTokens(token.tokens, ctx)
    IN  Decorate(ModeOf(ctx.settings, "italicMode"), STAR1, text, convertToItalicUnicode(text))

renderDel(token, ctx) ==
    LET text == renderTokens(token.tokens, ctx)
    IN  Decorate(ModeOf(ctx.settings, "strikethroughMode"), TILDES2, text, convertToStrikethrough(text))

renderCodespan(token, ctx) ==
    IF ~ctx.settings.enableInlineCode THEN token.text
    ELSE ctx.settings.inlineCodeWrapper \o token.text \o ctx.settings.inlineCodeWrapper

renderCode(token, ctx) ==
    IF ~ctx.settings.enableCodeBlock THEN token.text \o NL
    ELSE Join(PrefixLines(Split(token.text, 10), ctx.settings.codeBlockPrefix), NL) \o NL

renderBlockquote(token, ctx) ==
    LET content == renderTokens(token.tokens, ctx)
    IN  IF ~ctx.settings.enableBlockquote THEN content
        ELSE Join(PrefixNonEmptyLines(Split(content, 10), ctx.settings.blockquotePrefix), NL)

renderLink(token, ctx) == renderTokens(token.tokens, ctx)

\* token.text || ""
renderImage(token) == IF "text" \in DOMAIN token THEN token.text ELSE <<>>

IsList(t) == t.type = "list"
NotList(t) == t.type # "list"
NotCheckbox(t) == t.type # "checkbox"

renderList(token, ctx) ==
    Concat([i \in 1..Len(token.items) |->
                renderListItem(token.items[i], ctx, token.ordered, i - 1)])

\* the children are rendered in the order they stand in, nested lists among
\* the content
renderListItem_InOrder(token, ctx, ordered, index) ==
    LET kids == SelectSeq(token.tokens, NotCheckbox)
        nestedCtx == [settings |-> ctx.settings, listDepth |-> ctx.listDepth + 1]
        all == Concat([i \in 1..Len(kids) |->
                   IF IsList(kids[i]) THEN renderList(kids[i], nestedCtx)
                   ELSE renderTokens(<<kids[i]>>, ctx)])
    IN  ItemLine(getBullet(token, ctx.settings, ordered, index), ctx.listDepth,
                 Trim(all), <<>>)

renderListItem(token, ctx, ordered, index) ==
    LET contentTokens == SelectSeq(token.tokens, NotList)
        nestedLists == SelectSeq(token.tokens, IsList)
        filteredContent == SelectSeq(contentTokens, NotCheckbox)
        content == Trim(renderTokens(filteredContent, ctx))
        nestedCtx == [settings |-> ctx.settings, listDepth |-> ctx.listDepth + 1]
        nested == Concat([i \in 1..Len(nestedLists) |-> renderList(nestedLists[i], nestedCtx)])
        bullet == getBullet(token, ctx.settings, ordered, index)
    IN  ItemLine(bullet, ctx.listDepth, content, nested)

\* tokens.map((token) => renderToken(token, ctx)).join("")
renderTokens(ts, ctx) ==
    Concat([i \in 1..Len(ts) |-> JoinElement(renderToken(ts[i], ctx))])

\* a checkbox token renders as its source text
renderToken_CheckboxRaw(token, ctx) ==
    CASE token.type = "heading" -> renderHeading(token, ctx)
      [] token.type = "paragraph" -> renderParagraph(token, ctx)
      [] token.type = "text" -> renderText(token, ctx)
      [] token.type = "strong" -> renderStrong(token, ctx)
      [] token.type = "em" -> renderEm(token, ctx)
      [] token.type = "del" -> renderDel(token, ctx)
      [] token.type = "codespan" -> renderCodespan(token, ctx)
      [] token.type = "code" -> renderCode(token, ctx)
      [] token.type = "blockquote" -> renderBlockquote(token, ctx)
      [] token.type = "list" -> renderList(token, ctx)
      [] token.type = "link" -> renderLink(token, ctx)
      [] token.type = "image" -> renderImage(token)
      [] token.type = "hr" ->
            IF ctx.settings.enableHorizontalRule
            THEN ctx.settings.horizontalRule \o NL ELSE <<>>
      [] token.type \in {"br", "space"} -> NL
      [] token.type = "checkbox" -> token.raw
      [] token.type = "html" -> token.raw
      [] token.type = "escape" -> token.text
      [] OTHER -> IF "raw" \in DOMAIN token THEN token.raw ELSE <<>>

renderToken(token, ctx) ==
    CASE token.type = "heading" -> renderHeading(token, ctx)
      [] token.type = "paragraph" -> renderParagraph(token, ctx)
      [] token.type = "text" -> renderText(token, ctx)
      [] token.type = "strong" -> renderStrong(token, ctx)
      [] token.type = "em" -> renderEm(token, ctx)
      [] token.type = "del" -> renderDel(token, ctx)
      [] token.type = "codespan" -> renderCodespan(token, ctx)
      [] token.type = "code" -> renderCode(token, ctx)
      [] token.type = "blockquote" -> renderBlockquote(token, ctx)
      [] token.type = "list" -> renderList(token, ctx)
      [] token.type = "link" -> renderLink(token, ctx)
      [] token.type = "image" -> renderImage(token)
      [] token.type = "hr" ->
            IF ctx.settings.enableHorizontalRule
            THEN ctx.settings.horizontalRule \o NL ELSE <<>>
      [] token.type \in {"br", "space"} -> NL
      [] token.type = "checkbox" -> <<>>
      [] token.type = "html" -> token.raw
      [] token.type = "escape" -> token.text
      [] OTHER -> IF "raw" \in DOMAIN token THEN token.raw ELSE <<>>

-----------------------------------------------------------------------------
(* The marked lexer, on the Markdown fragment the conversions are run on:  *)
(* one line, an optional ATX heading marker and an inline part that is a   *)
(* word or a word between two "**" delimiters.                             *)

RECURSIVE LeadingHashes(_)
LeadingHashes(src) ==
    IF src # <<>> /\ Head(src) = 35 THEN 1 + LeadingHashes(Tail(src)) ELSE 0

\* the inline tokens of a line
LexInline(src) ==
    IF src = <<>> THEN <<>>
    ELSE IF /\ Len(src) >= 5
            /\ SubSeq(src, 1, 2) = STARS2
            /\ SubSeq(src, Len(src) - 1, Len(src)) = STARS2
            /\ \A i \in 3..(Len(src) - 2) : src[i] # 42 /\ ~IsWhiteSpace(src[i])
         THEN LET inner == SubSeq(src, 3, Len(src) - 2)
              IN  <<[type |-> "strong", raw |-> src, text |-> inner,
                     tokens |-> <<[type |-> "text", text |-> inner]>>]>>
         ELSE <<[type |-> "text", text |-> src]>>

\* new Lexer().lex(src)
Lex(src) ==
    LET k == LeadingHashes(src)
    IN  IF src = <<>> THEN <<>>
        ELSE IF k >= 1 /\ k <= 6 /\ (Len(src) = k \/ src[k + 1] = 32)
             THEN <<[type |-> "heading", depth |-> k,
                     tokens |-> LexInline(Trim(SubSeq(src, k + 1, Len(src))))]>>
             ELSE <<[type |-> "paragraph", tokens |-> LexInline(src)]>>

-----------------------------------------------------------------------------
(* Main entry point                                                        *)

\* r.applyBeforeConversion === true (the field is optional)
IsBeforeRule(r) == "applyBeforeConversion" \in DOMAIN r /\ r.applyBeforeConversion = TRUE
IsAfterRule(r) == ~IsBeforeRule(r)

beforeRulesOf(s) == SelectSeq(s.customRules, IsBeforeRule)

\* the second filter keeps every rule: the before-rules run again after rendering
afterRulesOf_All(s) == s.customRules

afterRulesOf(s) == SelectSeq(s.customRules, IsAfterRule)

\* the log entry of a pipeline stage that is not a rule
StageEntry(stage, text) == [stage |-> stage, event |-> "done", rule |-> "", text |-> text]

\* convertMarkdownToPlainText past the master toggle, `lexed` being what
\* lexer.lex returns for the text the before-rules leave
ConvertWith(md, s, lexed) ==
    LET before == applyCustomRules(md, beforeRulesOf(s), "before")
        toks == lexed
        ctx == [settings |-> s, listDepth |-> 0]
        rendered == renderTokens(toks, ctx)
        after == applyCustomRules(rendered, afterRulesOf(s), "after")
    IN  IF before.threw
        THEN [status |-> "threw", value |-> <<>>, tokens |-> <<>>, log |-> before.log]
        ELSE [status |-> IF after.threw THEN "threw" ELSE "returned",
              value |-> IF after.threw THEN <<>> ELSE after.result,
              tokens |-> toks,
              log |-> before.log \o <<StageEntry("lex", before.result)>>
                        \o <<StageEntry("render", rendered)>> \o after.log]

\* convertMarkdownToPlainText past the master toggle, with the lexer of the
\* one-line fragment
ConvertEnabled(md, s) ==
    ConvertWith(md, s, Lex(applyCustomRules(md, beforeRulesOf(s), "before").result))

\* the master toggle is tested after the before-rules have run
convertMarkdownToPlainText_ToggleLate(md, s) ==
    IF ~s.enableMarkdownConversion
    THEN LET before == applyCustomRules(md, beforeRulesOf(s), "before")
         IN  [status |-> "returned", value |-> before.result, tokens |-> <<>>,
              log |-> before.log]
    ELSE ConvertEnabled(md, s)

convertMarkdownToPlainText(md, s) ==
    IF ~s.enableMarkdownConversion
    THEN [status |-> "returned", value |-> md, tokens |-> <<>>, log |-> <<>>]
    ELSE ConvertEnabled(md, s)

-----------------------------------------------------------------------------
(* Inputs                                                                  *)

\* a complete settings record (every field the renderer reads has a value)
BaseSettings ==
    [enableMarkdownConversion |-> TRUE,
     enableHeadings |-> TRUE,
     heading1Prefix |-> <<9612>>, heading2Prefix |-> <<9613>>,
     heading3Prefix |-> <<9614>>, heading4Prefix |-> <<9615>>,
     enableBullet |-> TRUE, bulletChar |-> <<8226>>,
     enableCheckbox |-> TRUE, checkboxChecked |-> <<9745>>,
     checkboxUnchecked |-> <<9744>>,
     boldMode |-> "unicode", italicMode |-> "unicode", strikethroughMode |-> "unicode",
     enableHorizontalRule |-> TRUE, horizontalRule |-> <<9472, 9472, 9472>>,
     enableBlockquote |-> TRUE, blockquotePrefix |-> <<9474, 32>>,
     enableCodeBlock |-> TRUE, codeBlockPrefix |-> <<32, 32>>,
     enableInlineCode |-> TRUE, inlineCodeWrapper |-> <<96>>,
     customRules |-> <<>>]

TextDecorationModes == {"keep", "remove", "unicode"}

\* the rules of DEFAULT_SETTINGS.customRules: ^(\s*)<bullet> \[/\] ? becomes
\* $1<half circle> and ^(\s*)<bullet> \[-\] ? becomes $1<crossed box>
DefaultRule(name, mark, glyph) ==
    [name |-> name,
     pattern |-> <<94, 40, 92, 115, 42, 41, 8226, 32, 92, 91>> \o mark
                     \o <<92, 93, 32, 63>>,
     replacement |-> <<36, 49>> \o glyph \o SPACE,
     caseInsensitive |-> TRUE, enabled |-> TRUE]

\* DEFAULT_SETTINGS of types.ts, field by field
DEFAULT_SETTINGS ==
    [enableMarkdownConversion |-> TRUE,
     enableHeadings |-> TRUE,
     heading1Prefix |-> <<9612>>, heading2Prefix |-> <<9613>>,
     heading3Prefix |-> <<9614>>, heading4Prefix |-> <<9615>>,
     enableBullet |-> TRUE, bulletChar |-> <<8226>>,
     enableCheckbox |-> TRUE, checkboxChecked |-> <<9745>>,
     checkboxUnchecked |-> <<9744>>,
     useBoldUnicode |-> TRUE, useItalicUnicode |-> TRUE, useStrikethrough |-> TRUE,
     enableHorizontalRule |-> TRUE, horizontalRule |-> Repeat(<<9472>>, 12),
     enableBlockquote |-> TRUE, blockquotePrefix |-> <<9474, 32>>,
     enableCodeBlock |-> TRUE, codeBlockPrefix |-> <<32, 32>>,
     enableInlineCode |-> TRUE, inlineCodeWrapper |-> <<96>>,
     customRules |-> <<DefaultRule("In-progress checkbox", <<47>>, <<9680>>),
                       DefaultRule("Cancelled checkbox", <<45>>, <<9746>>)>>]

\* pattern, replacement and flag of the rules drawn: a -> b, a case-insensitive
\* b -> c, and a rule whose pattern "[a" does not compile
RuleBodies ==
    { [pattern |-> La, replacement |-> Lb, caseInsensitive |-> FALSE],
      [pattern |-> Lb, replacement |-> Lc, caseInsensitive |-> TRUE],
      [pattern |-> <<91, 97>>, replacement |-> Lc, caseInsensitive |-> TRUE] }

RuleNames == <<"r1", "r2", "r3", "r4">>

\* the rules that can stand at position i of customRules
RulesAt(i) ==
    LET plain == { [name |-> RuleNames[i], pattern |-> b.pattern,
                    replacement |-> b.replacement,
                    caseInsensitive |-> b.caseInsensitive, enabled |-> e]
                   : b \in RuleBodies, e \in BOOLEAN }
        flagged == { [name |-> RuleNames[i], pattern |-> b.pattern,
                      replacement |-> b.replacement,
                      caseInsensitive |-> b.caseInsensitive, enabled |-> TRUE,
                      applyBeforeConversion |-> f]
                     : b \in RuleBodies, f \in BOOLEAN }
    IN  plain \cup flagged

RECURSIVE RuleListsOfLen(_)
RuleListsOfLen(n) ==
    IF n = 0 THEN {<<>>}
    ELSE { Append(rs, r) : rs \in RuleListsOfLen(n - 1), r \in RulesAt(n) }

RuleLists == UNION { RuleListsOfLen(n) : n \in 0..MaxRules }

\* Markdown sources of the lexer's fragment
MarkdownBodies == { La \o La \o La, UA \o Lb, STARS2 \o La \o STARS2 }
MarkdownPrefixes == { <<>>, <<35, 32>> }
Markdowns == {<<>>} \cup { p \o b : p \in MarkdownPrefixes, b \in MarkdownBodies }

\* texts handed to applyCustomRules
RuleTexts == { La \o La \o La, La \o Lb \o <<66>>, Lc \o NL \o La }

-----------------------------------------------------------------------------
(* State machine: a behaviour is one call.  The initial state holds the    *)
(* function called and its arguments, the action of that function runs it  *)
(* and the variables keep what it returned.                                *)

NoArgs == [listDepth |-> 0, ordered |-> FALSE, index |-> 0]

\* the call has not run yet
Pending ==
    /\ pc = "call"
    /\ outcome = "none"
    /\ result = <<>>
    /\ log = <<>>
    /\ calls = <<>>
    /\ store = <<>>
    /\ heap = <<>>
    /\ presets = <<>>
    /\ presetCommandIds = <<>>
    /\ commands = {}
    /\ saved = FALSE
    /\ events = 0

InitConvert ==
    /\ Pending
    /\ op \in {"convert", "applyCustomRules"}
    /\ markdown \in (IF op = "convert" THEN Markdowns ELSE RuleTexts)
    /\ \E en \in BOOLEAN, rules \in RuleLists :
          /\ op = "applyCustomRules" => en
          /\ settings = [BaseSettings EXCEPT !.enableMarkdownConversion = en,
                                             !.customRules = rules]
    /\ tokens = <<>>
    /\ args = NoArgs

\* convertMarkdownToPlainText(markdown, settings)
Convert ==
    /\ pc = "call" /\ op = "convert"
    /\ LET r == convertMarkdownToPlainText(markdown, settings)
       IN  /\ tokens' = r.tokens
           /\ outcome' = r.status
           /\ result' = r.value
           /\ log' = r.log
    /\ pc' = "done"
    /\ UNCHANGED <<op, markdown, settings, args, calls, pluginVars>>

\* applyCustomRules(markdown, settings.customRules)
ApplyRules ==
    /\ pc = "call" /\ op = "applyCustomRules"
    /\ LET r == applyCustomRules(markdown, settings.customRules, "direct")
       IN  /\ outcome' = IF r.threw THEN "threw" ELSE "returned"
           /\ result' = IF r.threw THEN <<>> ELSE r.result
           /\ log' = r.log
    /\ pc' = "done"
    /\ UNCHANGED <<op, markdown, settings, tokens, args, calls, pluginVars>>

NextConvert == Convert \/ ApplyRules

SpecConvert == InitConvert /\ [][NextConvert]_vars

\* s has the non-empty string p somewhere in it
Includes(s, p) == \E i \in 1..(Len(s) - Len(p) + 1) : SubSeq(s, i, i + Len(p) - 1) = p

-----------------------------------------------------------------------------
(* Claims about the entry point and the custom rules                       *)

Done(f) == pc = "done" /\ op = f

\* the rule of customRules with the name n, and its position
RuleNamed(n) == CHOOSE r \in { settings.customRules[i] : i \in DOMAIN settings.customRules } :
                    r.name = n
RulePos(n) == CHOOSE i \in DOMAIN settings.customRules : settings.customRules[i].name = n

\* the text a log entry's rule or stage was given
TextBefore(i) == IF i = 1 THEN markdown ELSE log[i - 1].text

IsRuleEntry(e) == e.event \in {"applied", "warn"}
IsApplied(e) == e.event = "applied"
CompilesRule(r) == RegExpCompiles(r.pattern)
IsEnabledRule(r) == r.enabled

\* C1: with enableMarkdownConversion false the call returns its markdown
\* argument unchanged; no rule of either stage is applied and neither the
\* lexer nor the renderer runs.
C1_DisabledReturnsInput ==
    (Done("convert") /\ ~settings.enableMarkdownConversion) =>
        /\ outcome = "returned"
        /\ result = markdown
        /\ log = <<>>
        /\ tokens = <<>>

\* a disabled conversion whose rule list holds an enabled before-rule and an
\* enabled after-rule that both match the input
C1_Witness ==
    /\ Done("convert") /\ ~settings.enableMarkdownConversion
    /\ markdown = La \o La \o La
    /\ \E i, j \in DOMAIN settings.customRules :
          /\ IsBeforeRule(settings.customRules[i]) /\ settings.customRules[i].pattern = La
          /\ IsAfterRule(settings.customRules[j]) /\ settings.customRules[j].enabled
          /\ settings.customRules[j].pattern = La

\* C2: an enabled rule whose pattern does not compile is skipped: the call
\* returns, the rule leaves the accumulated text as it was, and the other
\* enabled rules are applied in order, so the result is that of the rule list
\* without the malformed rules.
C2_MalformedRuleSkipped ==
    (pc = "done" /\ op \in {"convert", "applyCustomRules"}) =>
        LET clean == SelectSeq(settings.customRules, CompilesRule)
            ref == IF op = "convert"
                   THEN convertMarkdownToPlainText(markdown,
                            [settings EXCEPT !.customRules = clean])
                   ELSE LET r == applyCustomRules(markdown, clean, "direct")
                        IN  [value |-> r.result, log |-> r.log]
        IN  /\ outcome = "returned"
            /\ result = ref.value
            /\ SelectSeq(log, IsApplied) = SelectSeq(ref.log, IsApplied)
            /\ \A i \in DOMAIN log :
                  log[i].event = "warn" =>
                      /\ ~RegExpCompiles(RuleNamed(log[i].rule).pattern)
                      /\ log[i].text = TextBefore(i)

\* a malformed rule followed by a rule that changes the text
C2_Witness ==
    /\ Done("applyCustomRules")
    /\ Len(log) = 2
    /\ log[1].event = "warn" /\ log[1].text = markdown
    /\ log[2].event = "applied" /\ log[2].text # markdown
    /\ result = log[2].text

\* C3: applyCustomRules folds over the rule array from left to right: the
\* enabled rules are applied in array order, each to the output of the one
\* before it ([a->b, b->c] turns "aaa" into "ccc", the reversed list into
\* "bbb"), and a disabled rule changes nothing.
C3_LeftToRightFold ==
    Done("applyCustomRules") =>
        LET rules == settings.customRules
            enabledNames == [i \in DOMAIN SelectSeq(rules, IsEnabledRule) |->
                                SelectSeq(rules, IsEnabledRule)[i].name]
        IN  /\ [i \in DOMAIN log |-> log[i].rule] = enabledNames
            /\ \A i \in DOMAIN log :
                  log[i].event = "applied" =>
                      LET r == RuleNamed(log[i].rule)
                      IN  log[i].text = ReplaceAll(TextBefore(i), r.pattern,
                                                   r.replacement, r.caseInsensitive)
            /\ result = (IF log = <<>> THEN markdown ELSE log[Len(log)].text)
            /\ (/\ markdown = La \o La \o La
                /\ Len(rules) = 2
                /\ rules[1].enabled /\ rules[2].enabled)
               => /\ (rules[1].pattern = La /\ rules[2].pattern = Lb)
                        => result = Lc \o Lc \o Lc
                  /\ (rules[1].pattern = Lb /\ rules[2].pattern = La)
                        => result = Lb \o Lb \o Lb

\* "aaa" under [a->b, b->c], both enabled
C3_Witness ==
    /\ Done("applyCustomRules")
    /\ markdown = La \o La \o La
    /\ Len(settings.customRules) = 2
    /\ settings.customRules[1].enabled /\ settings.customRules[1].pattern = La
    /\ settings.customRules[2].enabled /\ settings.customRules[2].pattern = Lb
    /\ result = Lc \o Lc \o Lc

\* C4: with conversion enabled the rules with applyBeforeConversion === true
\* run on the raw input before it is lexed and all other rules run on the
\* rendered string; every rule is in exactly one stage, each stage keeps the
\* order of customRules, and the stages' order does not depend on array
\* position.
C4_BeforeAndAfterStages ==
    (Done("convert") /\ settings.enableMarkdownConversion /\ outcome = "returned") =>
        LET rules == settings.customRules
            lexAt == CHOOSE i \in DOMAIN log : log[i].stage = "lex"
        IN  /\ Cardinality({ i \in DOMAIN log : log[i].stage = "lex" }) = 1
            /\ log[lexAt + 1].stage = "render"
            /\ \A i \in DOMAIN log :
                  /\ i < lexAt => log[i].stage = "before"
                  /\ i > lexAt + 1 => log[i].stage = "after"
                  /\ log[i].stage = "before" => IsBeforeRule(RuleNamed(log[i].rule))
                  /\ log[i].stage = "after" => ~IsBeforeRule(RuleNamed(log[i].rule))
            /\ \A k \in DOMAIN rules :
                  Cardinality({ i \in DOMAIN log :
                                  IsRuleEntry(log[i]) /\ log[i].rule = rules[k].name })
                      = (IF rules[k].enabled THEN 1 ELSE 0)
            /\ \A i, j \in DOMAIN log :
                  (i < j /\ IsRuleEntry(log[i]) /\ IsRuleEntry(log[j])
                     /\ log[i].stage = log[j].stage)
                      => RulePos(log[i].rule) < RulePos(log[j].rule)
            /\ log[lexAt].text = TextBefore(lexAt)
            /\ tokens = Lex(log[lexAt].text)
            /\ log[lexAt + 1].text = renderTokens(tokens, [settings |-> settings, listDepth |-> 0])
            /\ result = log[Len(log)].text

\* a before-rule listed after an after-rule runs first, and both change the text
C4_Witness ==
    /\ Done("convert") /\ settings.enableMarkdownConversion
    /\ Len(log) = 4
    /\ log[1].stage = "before" /\ log[1].rule = "r2" /\ log[1].text # markdown
    /\ log[2].stage = "lex" /\ log[3].stage = "render"
    /\ log[4].stage = "after" /\ log[4].rule = "r1" /\ log[4].text # log[3].text

-----------------------------------------------------------------------------
(* Token trees handed to the renderer                                      *)

Text(s) == [type |-> "text", raw |-> s, text |-> s]
Codespan(s) == [type |-> "codespan", raw |-> <<96>> \o s \o <<96>>, text |-> s]

\* the source text of a token sequence
RawOf(ts) == Concat([i \in 1..Len(ts) |-> ts[i].raw])

\* a strong, em or del token written with the delimiter `delim`
Decorated(type, delim, ts) ==
    [type |-> type, raw |-> delim \o RawOf(ts) \o delim, text |-> RawOf(ts), tokens |-> ts]

\* the delimiters marked accepts for each decoration: ** and __, * and _, ~~ and ~
Delimiters(type) ==
    CASE type = "strong" -> {STARS2, <<95, 95>>}
      [] type = "em" -> {STAR1, <<95>>}
      [] type = "del" -> {TILDES2, <<126>>}

DecorationTypes == {"strong", "em", "del"}

\* "a", "B7" followed by e-acute and an emoji (a surrogate pair), and a codespan
InlineLeaves == { Text(La), Text(<<66, 55, 233, 55357, 56832>>), Codespan(<<42, 97>>) }

InlineLeafSeqs ==
    { <<l>> : l \in InlineLeaves } \cup { <<Text(La), Codespan(<<42, 97>>)>> }

\* a decoration around leaves
Decorated1 ==
    UNION { { Decorated(ty, d, ts) : d \in Delimiters(ty), ts \in InlineLeafSeqs }
            : ty \in DecorationTypes }

\* the canonical delimiter of a decoration
Canonical(type) ==
    CASE type = "strong" -> STARS2 [] type = "em" -> STAR1 [] type = "del" -> TILDES2

\* a decoration around one decoration, or around a leaf and a decoration
Decorated2 ==
    UNION { { Decorated(ty, Canonical(ty), ts)
              : ts \in { <<d>> : d \in Decorated1 }
                       \cup { <<Text(La), Decorated(t2, Canonical(t2), <<Text(Lb)>>)>>
                              : t2 \in DecorationTypes } }
            : ty \in DecorationTypes }

InlineCalls ==
    { [tokens |-> <<t>>,
       settings |-> [BaseSettings EXCEPT !.boldMode = b, !.italicMode = i,
                                         !.strikethroughMode = d,
                                         !.enableInlineCode = c]]
      : t \in Decorated1 \cup Decorated2,
        b \in TextDecorationModes, i \in TextDecorationModes,
        d \in TextDecorationModes, c \in BOOLEAN }

Heading(depth, ts) ==
    [type |-> "heading", raw |-> Repeat(<<35>>, depth) \o SPACE \o RawOf(ts),
     depth |-> depth, text |-> RawOf(ts), tokens |-> ts]

HeadingChildren ==
    { <<>>, <<Text(La)>>, <<Text(La), Decorated("strong", STARS2, <<Text(Lb)>>)>> }

\* the shipped prefixes, and a configuration with "=", the empty string, "-="
\* and ">"
HeadingSettings ==
    { [s EXCEPT !.enableHeadings = e, !.boldMode = b]
      : s \in { BaseSettings,
                [BaseSettings EXCEPT !.heading1Prefix = <<61>>, !.heading2Prefix = <<>>,
                                     !.heading3Prefix = <<45, 61>>,
                                     !.heading4Prefix = <<62>>] },
        e \in BOOLEAN, b \in {"keep", "unicode"} }

HeadingCalls ==
    { [tokens |-> <<Heading(n, ts)>>, settings |-> s]
      : n \in 1..6, ts \in HeadingChildren, s \in HeadingSettings }

\* the block-level text token of a tight list item
BlockText(s) == [type |-> "text", raw |-> s, text |-> s, tokens |-> <<Text(s)>>]
Paragraph(ts) == [type |-> "paragraph", raw |-> RawOf(ts), tokens |-> ts]
Checkbox(checked) ==
    [type |-> "checkbox", raw |-> IF checked THEN <<91, 120, 93, 32>> ELSE <<91, 32, 93, 32>>,
     checked |-> checked]

ListItem(task, checked, ts) ==
    [type |-> "list_item", raw |-> RawOf(ts), task |-> task, checked |-> checked,
     tokens |-> ts]

List(ordered, items) ==
    [type |-> "list", raw |-> RawOf(items), ordered |-> ordered, items |-> items]

\* the content of an item: a plain tight item, a plain loose item (a paragraph),
\* a tight task item and a loose task item (the checkbox inside the paragraph)
PlainTight == [task |-> FALSE, checked |-> FALSE, tokens |-> <<BlockText(La)>>]
PlainLoose == [task |-> FALSE, checked |-> FALSE, tokens |-> <<Paragraph(<<Text(Lb)>>)>>]
TaskOpen == [task |-> TRUE, checked |-> FALSE, tokens |-> <<Checkbox(FALSE), BlockText(La)>>]
TaskDone ==
    [task |-> TRUE, checked |-> TRUE,
     tokens |-> <<Paragraph(<<Checkbox(TRUE), Text(Lb)>>)>>]

ItemKinds == { PlainTight, PlainLoose, TaskOpen, TaskDone }

\* an item of kind k with the lists `nested` after its content
ItemOf(k, nested) == ListItem(k.task, k.checked, k.tokens \o nested)

RECURSIVE SeqsUpTo(_, _)
\* the non-empty sequences over S of length at most n
SeqsUpTo(S, n) ==
    IF n <= 0 THEN {}
    ELSE { <<x>> : x \in S } \cup
         { Append(q, x) : q \in SeqsUpTo(S, n - 1), x \in S }

\* lists of items without nested lists
LeafLists ==
    { List(o, items)
      : o \in BOOLEAN,
        items \in SeqsUpTo({ ItemOf(k, <<>>) : k \in {PlainTight, TaskOpen, TaskDone} },
                           MaxItems) }

ListSettings ==
    { [BaseSettings EXCEPT !.enableBullet = b, !.enableCheckbox = c]
      : b \in BOOLEAN, c \in BOOLEAN }

\* a list of one plain item with the text s
OneItemList(ordered, s) == List(ordered, <<ListItem(FALSE, FALSE, <<BlockText(s)>>)>>)

\* items whose nested lists stand among the content: a, list(c), b, list(d);
\* list(c), a; and a task item checkbox, a, list(c), b
InterleavedItems ==
    { ListItem(FALSE, FALSE, <<Paragraph(<<Text(La)>>), OneItemList(FALSE, Lc),
                               Paragraph(<<Text(Lb)>>), OneItemList(TRUE, Ld)>>),
      ListItem(FALSE, FALSE, <<OneItemList(FALSE, Lc), Paragraph(<<Text(La)>>)>>),
      ListItem(TRUE, FALSE, <<Checkbox(FALSE), BlockText(La), OneItemList(FALSE, Lc),
                              Paragraph(<<Text(Lb)>>)>>) }

\* renderListItem(item, ctx, ordered, index)
ListItemCalls ==
    { [tokens |-> <<it>>, settings |-> s,
       args |-> [listDepth |-> d, ordered |-> o, index |-> i]]
      : it \in { ItemOf(k, n) : k \in ItemKinds, n \in {<<>>} \cup { <<l>> : l \in LeafLists } }
               \cup InterleavedItems,
        s \in ListSettings, d \in 0..MaxListDepth, o \in BOOLEAN, i \in 0..(MaxItems - 1) }

\* getBullet(item, settings, ordered, index); the second bullet character is "-"
GetBulletCalls ==
    { [tokens |-> <<ItemOf(k, <<>>)>>, settings |-> [s EXCEPT !.bulletChar = bc],
       args |-> [listDepth |-> 0, ordered |-> o, index |-> i]]
      : k \in ItemKinds, s \in ListSettings, bc \in {<<8226>>, <<45>>},
        o \in BOOLEAN, i \in 0..MaxIndex }

\* the nested lists of the two-level documents: an ordered list, an unordered
\* list, and an ordered list that starts with a task item
NestedChoices ==
    { <<>>,
      <<List(TRUE, <<ItemOf(PlainTight, <<>>), ItemOf(PlainLoose, <<>>)>>)>>,
      <<List(FALSE, <<ItemOf(PlainTight, <<>>), ItemOf(TaskOpen, <<>>)>>)>>,
      <<List(TRUE, <<ItemOf(TaskDone, <<>>), ItemOf(PlainTight, <<>>)>>)>> }

\* a top-level list whose items may each hold one nested list
ListCalls ==
    { [tokens |-> <<List(o, items)>>, settings |-> s]
      : o \in BOOLEAN,
        items \in SeqsUpTo({ ItemOf(k, n) : k \in {PlainTight, TaskDone},
                                            n \in NestedChoices }, MaxItems),
        s \in ListSettings }

\* a fenced code block; marked leaves `lang` out when the fence has none
Code(lang, text) ==
    IF lang = <<>> THEN [type |-> "code", raw |-> <<96, 96, 96>> \o NL \o text \o NL \o <<96, 96, 96>>,
                         text |-> text]
    ELSE [type |-> "code", raw |-> <<96, 96, 96>> \o lang \o NL \o text \o NL \o <<96, 96, 96>>,
          lang |-> lang, text |-> text]

\* "a", "**a**" over an empty line over "b", an empty block, and a block that
\* starts and ends with an empty line
CodeTexts == { La, STARS2 \o La \o STARS2 \o NL \o NL \o Lb, <<>>, NL \o Lc \o NL }

\* the annotations: none and "js"
CodeLangs == { <<>>, <<106, 115>> }

CodeCalls ==
    { [tokens |-> <<Code(l, x)>>,
       settings |-> [BaseSettings EXCEPT !.enableCodeBlock = e, !.codeBlockPrefix = p]]
      : l \in CodeLangs, x \in CodeTexts, e \in BOOLEAN, p \in { <<32, 32>>, <<>>, <<62, 32>> } }

Blockquote(ts) == [type |-> "blockquote", raw |-> <<62, 32>> \o RawOf(ts), tokens |-> ts]
Space == [type |-> "space", raw |-> NL \o NL]

\* the children of a blockquote: nothing, a paragraph, two paragraphs with the
\* blank line between them, a code block, a list, a blockquote
BlockquoteChildren ==
    { <<>>,
      <<Paragraph(<<Text(La)>>)>>,
      <<Paragraph(<<Text(La)>>), Space, Paragraph(<<Text(Lb), Codespan(Lc)>>)>>,
      <<Code(<<>>, La \o NL \o NL \o Lb)>>,
      <<List(FALSE, <<ItemOf(PlainTight, <<>>), ItemOf(TaskOpen, <<>>)>>)>>,
      <<Blockquote(<<Paragraph(<<Text(La)>>), Space, Paragraph(<<Text(Lb)>>)>>)>> }

BlockquoteCalls ==
    { [tokens |-> <<Blockquote(ts)>>,
       settings |-> [BaseSettings EXCEPT !.enableBlockquote = e, !.blockquotePrefix = p,
                                         !.enableCodeBlock = c]]
      : ts \in BlockquoteChildren, e \in BOOLEAN, p \in { <<9474, 32>>, <<62>> },
        c \in BOOLEAN }

Link(ts) ==
    [type |-> "link", raw |-> <<91>> \o RawOf(ts) \o <<93, 40, 117, 41>>, href |-> <<117>>,
     text |-> RawOf(ts), tokens |-> ts]
Image(alt) ==
    [type |-> "image", raw |-> <<33, 91>> \o alt \o <<93, 40, 117, 41>>, href |-> <<117>>,
     text |-> alt]

\* tokens without children: a thematic break, a hard line break, raw HTML, an
\* escape, and tokens of types the switch does not name (a table, a link
\* definition, a token without raw text)
Hr == [type |-> "hr", raw |-> <<45, 45, 45>>]
Br == [type |-> "br", raw |-> <<32, 32, 10>>]
Html == [type |-> "html", raw |-> <<60, 98, 62>>, text |-> <<60, 98, 62>>]
Escape == [type |-> "escape", raw |-> <<92, 42>>, text |-> <<42>>]
Table == [type |-> "table", raw |-> <<124, 97, 124, 10, 124, 45, 124, 10>>]
Def == [type |-> "def", raw |-> <<91, 97, 93, 58, 32, 117>>, tag |-> La]
Bare == [type |-> "generic"]

\* one token of every type of the switch, and the unnamed types
TokenKinds ==
    { Heading(5, <<Text(La)>>),
      Paragraph(<<Text(La), Decorated("strong", STARS2, <<Text(Lb)>>)>>),
      Text(La), BlockText(La),
      Decorated("strong", STARS2, <<Text(La)>>),
      Decorated("em", STAR1, <<Text(La), Codespan(Lb)>>),
      Decorated("del", TILDES2, <<Decorated("strong", STARS2, <<Text(La)>>)>>),
      Codespan(La), Code(<<>>, La \o NL \o Lb),
      Blockquote(<<Paragraph(<<Text(La)>>)>>),
      List(TRUE, <<ItemOf(PlainTight, <<>>), ItemOf(TaskDone, <<>>)>>),
      ItemOf(PlainTight, <<>>),
      Link(<<Text(La), Decorated("em", STAR1, <<Text(Lb)>>)>>), Link(<<>>),
      Image(La), Image(<<>>),
      Hr, Br, Space, Checkbox(TRUE), Html, Escape, Table, Def, Bare }

\* renderToken(token, ctx) under complete settings
TokenCalls ==
    { [tokens |-> <<t>>,
       settings |-> [BaseSettings EXCEPT !.boldMode = b, !.italicMode = i,
                                         !.strikethroughMode = d,
                                         !.enableHorizontalRule = h]]
      : t \in TokenKinds, b \in TextDecorationModes, i \in TextDecorationModes,
        d \in TextDecorationModes, h \in BOOLEAN }

\* a loose item with the text s and the children rest after it
ItemWith(s, rest) == ListItem(FALSE, FALSE, <<Paragraph(<<Text(s)>>)>> \o rest)

\* documents whose items each have a letter of their own: a three-level list
\* followed by a sibling, a list in a blockquote in a list item, and a two-level
\* list in a blockquote
NestedDoc ==
    <<List(FALSE, <<ItemWith(La, <<List(TRUE, <<ItemWith(Lb, <<List(FALSE, <<ItemWith(Lc, <<>>)>>)>>)>>)>>),
                    ItemWith(Ld, <<>>)>>)>>
QuotedInItemDoc ==
    <<List(FALSE, <<ItemWith(La, <<Blockquote(<<List(FALSE, <<ItemWith(Lb, <<>>)>>)>>)>>),
                    ItemWith(Lc, <<>>)>>)>>
ListInQuoteDoc ==
    <<Blockquote(<<List(FALSE, <<ItemWith(La, <<List(FALSE, <<ItemWith(Lb, <<>>)>>)>>)>>)>>)>>

DepthDocs == { NestedDoc, QuotedInItemDoc, ListInQuoteDoc }

DepthCalls ==
    { [tokens |-> d, settings |-> [BaseSettings EXCEPT !.enableBlockquote = e]]
      : d \in DepthDocs, e \in BOOLEAN }

RenderCalls ==
    InlineCalls \cup HeadingCalls \cup ListCalls \cup CodeCalls \cup BlockquoteCalls
        \cup DepthCalls

-----------------------------------------------------------------------------
(* Calls of the renderer                                                   *)

InitRender ==
    /\ Pending
    /\ markdown = <<>>
    /\ op \in {"renderTokens", "renderToken", "renderListItem", "getBullet"}
    /\ \/ /\ op = "renderTokens"
          /\ args = NoArgs
          /\ \E c \in RenderCalls : tokens = c.tokens /\ settings = c.settings
       \/ /\ op = "renderToken"
          /\ args = NoArgs
          /\ \E c \in TokenCalls : tokens = c.tokens /\ settings = c.settings
       \/ /\ op = "renderListItem"
          /\ \E c \in ListItemCalls :
                tokens = c.tokens /\ settings = c.settings /\ args = c.args
       \/ /\ op = "getBullet"
          /\ \E c \in GetBulletCalls :
                tokens = c.tokens /\ settings = c.settings /\ args = c.args

Returned(v) ==
    /\ pc' = "done"
    /\ outcome' = "returned"
    /\ result' = v
    /\ UNCHANGED <<op, markdown, settings, tokens, args, log, calls, pluginVars>>

\* renderTokens(tokens, { settings, listDepth: 0 }), as convertMarkdownToPlainText
\* calls it on the lexer's output
RenderTokens ==
    /\ pc = "call" /\ op = "renderTokens"
    /\ Returned(renderTokens(tokens, [settings |-> settings, listDepth |-> 0]))

\* renderToken(tokens[1], { settings, listDepth: 0 })
RenderToken ==
    /\ pc = "call" /\ op = "renderToken"
    /\ Returned(renderToken(tokens[1], [settings |-> settings, listDepth |-> 0]))

\* renderListItem(tokens[1], { settings, listDepth }, ordered, index)
RenderListItem ==
    /\ pc = "call" /\ op = "renderListItem"
    /\ Returned(renderListItem(tokens[1],
                               [settings |-> settings, listDepth |-> args.listDepth],
                               args.ordered, args.index))

\* getBullet(tokens[1], settings, ordered, index)
GetBullet ==
    /\ pc = "call" /\ op = "getBullet"
    /\ Returned(getBullet(tokens[1], settings, args.ordered, args.index))

NextRender == RenderTokens \/ RenderToken \/ RenderListItem \/ GetBullet

SpecRender == InitRender /\ [][NextRender]_vars

-----------------------------------------------------------------------------
(* Claims about the renderer                                               *)

\* the context of a top-level render
TopCtx == [settings |-> settings, listDepth |-> 0]

\* one token of the given type was rendered
RenderedOne(type) ==
    Done("renderTokens") /\ Len(tokens) = 1 /\ tokens[1].type = type

\* the configured prefix of heading level n, n in 1..4
ConfiguredPrefix(n) ==
    <<settings.heading1Prefix, settings.heading2Prefix,
      settings.heading3Prefix, settings.heading4Prefix>>[n]

\* C5: a heading of level 1..4 renders as its configured prefix, one space,
\* the rendered children and one newline when enableHeadings is true, and as
\* the rendered children and one newline when it is false.
C5_HeadingLevels1To4 ==
    (RenderedOne("heading") /\ tokens[1].depth \in 1..4) =>
        LET children == renderTokens(tokens[1].tokens, TopCtx)
        IN  result = IF settings.enableHeadings
                     THEN ConfiguredPrefix(tokens[1].depth) \o SPACE \o children \o NL
                     ELSE children \o NL

\* a level-3 heading with children, rendered with a two-character prefix
C5_Witness ==
    /\ RenderedOne("heading") /\ tokens[1].depth = 3
    /\ settings.enableHeadings /\ settings.heading3Prefix = <<45, 61>>
    /\ Len(tokens[1].tokens) = 2
    /\ SubSeq(result, 1, 3) = <<45, 61, 32>>

\* C6: a heading of level 5 or 6 renders as exactly the rendered children and
\* one newline, whether enableHeadings is true or false.
C6_HeadingLevels5And6 ==
    (RenderedOne("heading") /\ tokens[1].depth \in {5, 6}) =>
        result = renderTokens(tokens[1].tokens, TopCtx) \o NL

RECURSIVE CountOf(_, _)
\* how often the code unit c occurs in s
CountOf(s, c) ==
    IF s = <<>> THEN 0 ELSE (IF Head(s) = c THEN 1 ELSE 0) + CountOf(Tail(s), c)

\* the first line of a string
FirstLine(s) == Split(s, 10)[1]

RECURSIVE DecimalValue(_)
\* the number a string of decimal digits denotes
DecimalValue(ds) ==
    IF ds = <<>> THEN 0 ELSE 10 * DecimalValue(SubSeq(ds, 1, Len(ds) - 1)) + (ds[Len(ds)] - 48)

\* s is a positive decimal number without a leading zero, followed by "."
IsOrdinal(s) ==
    /\ Len(s) >= 2
    /\ s[Len(s)] = 46
    /\ \A i \in 1..(Len(s) - 1) : s[i] >= 48 /\ s[i] <= 57
    /\ s[1] # 48

OrdinalValue(s) == DecimalValue(SubSeq(s, 1, Len(s) - 1))

\* C7: for a task item getBullet returns checkboxChecked or checkboxUnchecked,
\* by the checked flag, when enableCheckbox is true, and no marker when it is
\* false; never bulletChar or an ordinal, whatever the list's ordered flag and
\* enableBullet are.  The rendered line of a task item holds no bullet and at
\* most one checkbox symbol.
C7_TaskItemMarker ==
    /\ (Done("getBullet") /\ tokens[1].task) =>
          /\ result.none = ~settings.enableCheckbox
          /\ ~result.none =>
                /\ result.text = (IF tokens[1].checked THEN settings.checkboxChecked
                                  ELSE settings.checkboxUnchecked)
                /\ result.text # settings.bulletChar
                /\ ~IsOrdinal(result.text)
    /\ (Done("renderListItem") /\ tokens[1].task) =>
          LET line == FirstLine(result)
              want == IF tokens[1].checked THEN settings.checkboxChecked[1]
                      ELSE settings.checkboxUnchecked[1]
              other == IF tokens[1].checked THEN settings.checkboxUnchecked[1]
                       ELSE settings.checkboxChecked[1]
          IN  /\ CountOf(line, settings.bulletChar[1]) = 0
              /\ CountOf(line, 46) = 0
              /\ CountOf(line, other) = 0
              /\ CountOf(line, want) = (IF settings.enableCheckbox THEN 1 ELSE 0)

\* a checked task item of an ordered list, with bullets and checkboxes on
C7_Witness ==
    /\ Done("getBullet")
    /\ tokens[1].task /\ tokens[1].checked /\ args.ordered /\ args.index = 1
    /\ settings.enableBullet /\ settings.enableCheckbox
    /\ result.text = settings.checkboxChecked

\* the tokens of a list item that are its content, and its nested lists
ContentOf(item) == SelectSeq(SelectSeq(item.tokens, NotList), NotCheckbox)
NestedOf(item) == SelectSeq(item.tokens, IsList)

RECURSIVE SumLens(_)
\* the number of items of a sequence of lists of leaf items
SumLens(ls) == IF ls = <<>> THEN 0 ELSE Len(Head(ls).items) + SumLens(Tail(ls))

RECURSIVE LinesBefore(_, _)
\* the number of output lines of the first p - 1 items of a two-level list
LinesBefore(items, p) ==
    IF p <= 1 THEN 0
    ELSE LinesBefore(items, p - 1) + 1 + SumLens(NestedOf(items[p - 1]))

\* C8: a non-task item of an ordered list gets the marker "<index+1>.", where
\* index is its zero-based position in its own list, whatever enableBullet and
\* enableCheckbox are; so a nested ordered list numbers its items from 1
\* whatever the position of the parent item.
C8_OrderedMarker ==
    /\ (Done("getBullet") /\ ~tokens[1].task /\ args.ordered) =>
          /\ ~result.none
          /\ IsOrdinal(result.text)
          /\ OrdinalValue(result.text) = args.index + 1
    /\ RenderedOne("list") =>
          LET items == tokens[1].items
              lines == Split(result, 10)
          IN  \A p \in DOMAIN items :
                 \A n \in DOMAIN NestedOf(items[p]) :
                    LET sub == NestedOf(items[p])[n]
                    IN  \A j \in DOMAIN sub.items :
                           (sub.ordered /\ ~sub.items[j].task) =>
                               lines[LinesBefore(items, p) + 1 + j] =
                                   INDENT_UNIT \o <<48 + j>> \o DOT \o SPACE
                                     \o Trim(renderTokens(ContentOf(sub.items[j]), TopCtx))

\* the second item of a list holds an ordered list, whose first line is "  1. a"
C8_Witness ==
    /\ RenderedOne("list")
    /\ Len(tokens[1].items) = 2
    /\ NestedOf(tokens[1].items[1]) # <<>>
    /\ NestedOf(tokens[1].items[2]) # <<>>
    /\ NestedOf(tokens[1].items[2])[1].ordered
    /\ ~NestedOf(tokens[1].items[2])[1].items[1].task
    /\ ~settings.enableBullet
    /\ Split(result, 10)[5] = INDENT_UNIT \o <<49, 46, 32>> \o La

\* C9: a list item rendered at list depth d is 2*d spaces, the marker, one
\* space, the trimmed content, a newline and the nested lists' output when
\* getBullet yields a marker, and the trimmed content, a newline and the
\* nested lists' output, unindented, when it yields none.
C9_ListItemLine ==
    Done("renderListItem") =>
        LET item == tokens[1]
            d == args.listDepth
            m == getBullet(item, settings, args.ordered, args.index)
            content == Trim(renderTokens(ContentOf(item),
                                         [settings |-> settings, listDepth |-> d]))
            nestedLists == NestedOf(item)
            nested == Concat([i \in DOMAIN nestedLists |->
                                renderList(nestedLists[i],
                                           [settings |-> settings, listDepth |-> d + 1])])
            indent == [i \in 1..(2 * d) |-> 32]
        IN  /\ m.none => result = content \o NL \o nested
            /\ ~m.none => result = indent \o m.text \o SPACE \o content \o NL \o nested
            /\ content # <<>> => ~IsWhiteSpace(content[1]) /\ ~IsWhiteSpace(content[Len(content)])

\* an item with a marker and a nested list, rendered at depth 2
C9_Witness ==
    /\ Done("renderListItem")
    /\ args.listDepth = 2 /\ args.ordered
    /\ NestedOf(tokens[1]) # <<>>
    /\ SubSeq(result, 1, 4) = INDENT_UNIT \o INDENT_UNIT
    /\ result[5] # 32

\* the delimiter a strong, em or del token was written with
OriginalWrapper(t) == SubSeq(t.raw, 1, (Len(t.raw) - Len(t.text)) \div 2)

\* C10: renderStrong, renderEm and renderDel dispatch on boldMode, italicMode
\* and strikethroughMode: 'remove' returns the rendered inner text, 'unicode'
\* its glyph mapping, and 'keep' the inner text re-wrapped in ** , * and ~~ ,
\* which reproduces the original wrapper syntax byte for byte around the
\* rendered inner text.
C10_DecorationModes ==
    (Done("renderTokens") /\ Len(tokens) = 1 /\ tokens[1].type \in DecorationTypes) =>
        LET t == tokens[1]
            inner == renderTokens(t.tokens, TopCtx)
            mode == CASE t.type = "strong" -> settings.boldMode
                      [] t.type = "em" -> settings.italicMode
                      [] t.type = "del" -> settings.strikethroughMode
            glyphs == CASE t.type = "strong" -> convertToBoldUnicode(inner)
                        [] t.type = "em" -> convertToItalicUnicode(inner)
                        [] t.type = "del" -> convertToStrikethrough(inner)
        IN  /\ mode = "remove" => result = inner
            /\ mode = "unicode" => result = glyphs
            /\ mode = "keep" =>
                  /\ result = Canonical(t.type) \o inner \o Canonical(t.type)
                  /\ result = OriginalWrapper(t) \o inner \o OriginalWrapper(t)

-----------------------------------------------------------------------------
(* Conversions with the shipped defaults.  The lexer is the marked         *)
(* library: a call holds a Markdown source and the tokens lexer.lex        *)
(* returns for it.                                                         *)

Hello == <<72, 101, 108, 108, 111>>

\* "**Hello**", "__Hello__", "*a*", ... : one decoration around one word
DecoratedDocs ==
    UNION { { <<Paragraph(<<Decorated(ty, d, <<Text(w)>>)>>)>>
              : d \in Delimiters(ty), w \in {Hello, La, <<66, 55, 233>>} }
            : ty \in DecorationTypes }

\* non-task items whose text is "[/] a", "[-] b" and "[/]", and a plain item
InProgress == [task |-> FALSE, checked |-> FALSE,
               tokens |-> <<BlockText(<<91, 47, 93, 32>> \o La)>>]
Cancelled == [task |-> FALSE, checked |-> FALSE,
              tokens |-> <<BlockText(<<91, 45, 93, 32>> \o Lb)>>]
BareMarker == [task |-> FALSE, checked |-> FALSE, tokens |-> <<BlockText(<<91, 47, 93>>)>>]

\* nothing, or one unordered list of one bracket item, nested down to
\* MaxListDepth
RECURSIVE DeepChoices(_)
DeepChoices(d) ==
    IF d > MaxListDepth THEN {<<>>}
    ELSE {<<>>} \cup { <<List(FALSE, <<ItemOf(k, n)>>)>>
                       : k \in {InProgress, Cancelled}, n \in DeepChoices(d + 1) }

\* a list whose first item may hold nested lists
BracketDocs ==
    { <<List(o, <<ItemOf(k, n)>> \o rest)>>
      : o \in BOOLEAN,
        k \in {InProgress, Cancelled, BareMarker, PlainTight, TaskOpen},
        n \in DeepChoices(1),
        rest \in {<<>>} \cup SeqsUpTo({ ItemOf(j, <<>>) : j \in {InProgress, Cancelled, PlainTight} },
                                      MaxItems - 1) }

\* the Markdown source of a list whose lines start with `indent`
RECURSIVE ListSource(_, _)
ListSource(list, indent) ==
    Concat([i \in 1..Len(list.items) |->
        LET item == list.items[i]
            marker == IF list.ordered THEN NumToStr(i) \o DOT ELSE <<45>>
            nestedLists == SelectSeq(item.tokens, IsList)
            deeper == indent \o Repeat(SPACE, Len(marker) + 1)
        IN  indent \o marker \o SPACE \o RawOf(SelectSeq(item.tokens, NotList)) \o NL
                \o Concat([j \in 1..Len(nestedLists) |-> ListSource(nestedLists[j], deeper)])])

\* a blockquote around one unordered list of bracket items
QuotedDocs ==
    { <<Blockquote(<<List(FALSE, <<ItemOf(k, n)>>)>>)>>
      : k \in {InProgress, Cancelled}, n \in DeepChoices(MaxListDepth) }

\* the lines of a source, each behind "> "
QuoteSource(src) ==
    LET lines == Split(src, 10)
    IN  Join([i \in 1..Len(lines) |->
                 IF lines[i] = <<>> THEN <<>> ELSE <<62, 32>> \o lines[i]], NL)

\* the Markdown source of a document
SourceOf(doc) ==
    IF doc[1].type = "list" THEN ListSource(doc[1], <<>>)
    ELSE IF doc[1].type = "blockquote"
    THEN QuoteSource(ListSource(doc[1].tokens[1], <<>>))
    ELSE RawOf(doc)

\* DEFAULT_SETTINGS, and DEFAULT_SETTINGS with an override
DefaultVariants ==
    { DEFAULT_SETTINGS,
      [DEFAULT_SETTINGS EXCEPT !.customRules = <<>>],
      [DEFAULT_SETTINGS EXCEPT !.useBoldUnicode = FALSE] }

InitDefault ==
    /\ Pending
    /\ op = "convert"
    /\ tokens \in DecoratedDocs \cup BracketDocs \cup QuotedDocs
    /\ markdown = SourceOf(tokens)
    /\ settings \in DefaultVariants
    /\ args = NoArgs

\* convertMarkdownToPlainText(markdown, settings), lexer.lex returning `tokens`
convertLexed(md, s, lexed) ==
    IF ~s.enableMarkdownConversion
    THEN [status |-> "returned", value |-> md, tokens |-> <<>>, log |-> <<>>]
    ELSE ConvertWith(md, s, lexed)

ConvertLexed ==
    /\ pc = "call" /\ op = "convert"
    /\ LET r == convertLexed(markdown, settings, tokens)
       IN  /\ outcome' = r.status
           /\ result' = r.value
           /\ log' = r.log
    /\ pc' = "done"
    /\ UNCHANGED <<op, markdown, settings, tokens, args, calls, pluginVars>>

NextDefault == ConvertLexed

SpecDefault == InitDefault /\ [][NextDefault]_vars

\* the decoration settings the renderer reads
DecorationSettings == {"boldMode", "italicMode", "strikethroughMode"}

\* the glyph mapping that a decoration stands for
GlyphsOf(type, text) ==
    CASE type = "strong" -> convertToBoldUnicode(text)
      [] type = "em" -> convertToItalicUnicode(text)
      [] type = "del" -> convertToStrikethrough(text)

\* C11: with DEFAULT_SETTINGS a strong, em or del converts to the Unicode form
\* of its text ("**Hello**" to mathematical bold Hello), and the default record
\* has a value for every decoration setting the renderer reads.
C11_DefaultDecorations ==
    (Done("convert") /\ settings = DEFAULT_SETTINGS /\ tokens \in DecoratedDocs) =>
        LET t == tokens[1].tokens[1]
        IN  /\ DecorationSettings \subseteq DOMAIN settings
            /\ Trim(result) = GlyphsOf(t.type, t.tokens[1].text)
            /\ (t.type = "strong" /\ t.tokens[1].text = Hello) =>
                  Trim(result) = <<55349, 56327, 55349, 56350, 55349, 56357,
                                   55349, 56357, 55349, 56360>>

\* the items of a token tree in document order, each with the depth of its list
\* and whether that list is ordered
RECURSIVE ItemsOf(_, _)
ItemsOf(ts, depth) ==
    Concat([i \in 1..Len(ts) |->
        IF ts[i].type = "list"
        THEN Concat([j \in 1..Len(ts[i].items) |->
                 <<[item |-> ts[i].items[j], depth |-> depth, ordered |-> ts[i].ordered]>>
                     \o ItemsOf(NestedOf(ts[i].items[j]), depth + 1)])
        ELSE IF ts[i].type = "blockquote" THEN ItemsOf(ts[i].tokens, depth)
        ELSE <<>>])

BracketMarkers == { <<91, 47, 93, 32>>, <<91, 45, 93, 32>> }

\* the source text of an item's own content
ItemText(item) == RawOf(ContentOf(item))

\* an unordered, non-task item whose text begins with "[/] " or "[-] "
IsBracketItem(e) ==
    /\ ~e.ordered /\ ~e.item.task
    /\ Len(ItemText(e.item)) >= 4
    /\ SubSeq(ItemText(e.item), 1, 4) \in BracketMarkers

\* the half circle for "[/] ", the crossed box for "[-] "
GlyphFor(marker) == IF marker[2] = 47 THEN <<9680>> ELSE <<9746>>

\* the text the renderer returned, before the after-rules ran
RenderedText == (CHOOSE i \in DOMAIN log : log[i].stage = "render")

\* C20: with DEFAULT_SETTINGS the line of an unordered, non-task list item whose
\* text begins with "[/] " or "[-] " has the half circle or the crossed box in
\* place of both the bullet and the bracket marker, at every nesting depth and
\* behind the indentation of that depth; the renderer's own output still has
\* the bullet and the marker, which the two default rules replace afterwards.
C20_DefaultCheckboxVariants ==
    (Done("convert") /\ settings = DEFAULT_SETTINGS /\ ItemsOf(tokens, 0) # <<>>) =>
        LET items == ItemsOf(tokens, 0)
            lines == Split(result, 10)
            rendered == Split(log[RenderedText].text, 10)
        IN  \A j \in DOMAIN items :
                IsBracketItem(items[j]) =>
                    LET text == ItemText(items[j].item)
                        marker == SubSeq(text, 1, 4)
                        rest == SubSeq(text, 5, Len(text))
                        indent == Repeat(INDENT_UNIT, items[j].depth)
                    IN  /\ Includes(rendered[j],
                                    indent \o settings.bulletChar \o SPACE \o marker \o rest)
                        /\ Includes(lines[j], indent \o GlyphFor(marker) \o SPACE \o rest)
                        /\ CountOf(lines[j], 8226) = 0
                        /\ CountOf(lines[j], 91) = 0

-----------------------------------------------------------------------------
(* Calls of the Unicode conversions                                        *)

\* "Z", "a", "9", e-acute, an emoji (a surrogate pair), a lone high and a lone
\* low surrogate
TextPieces == { <<90>>, La, <<57>>, <<233>>, <<55357, 56832>>, <<55357>>, <<56832>> }

RECURSIVE TextsOfLen(_)
TextsOfLen(n) ==
    IF n = 0 THEN {<<>>} ELSE { s \o c : s \in TextsOfLen(n - 1), c \in TextPieces }

\* every printable ASCII character, and the texts of at most MaxTextLen pieces
UnicodeTexts ==
    { <<c>> : c \in 32..126 } \cup UNION { TextsOfLen(n) : n \in 0..MaxTextLen }

InitUnicode ==
    /\ Pending
    /\ op \in {"convertToBoldUnicode", "convertToItalicUnicode", "convertToStrikethrough"}
    /\ markdown \in UnicodeTexts
    /\ settings = BaseSettings
    /\ tokens = <<>>
    /\ args = NoArgs

ConvertToBoldUnicode ==
    /\ pc = "call" /\ op = "convertToBoldUnicode"
    /\ Returned(convertToBoldUnicode(markdown))

ConvertToItalicUnicode ==
    /\ pc = "call" /\ op = "convertToItalicUnicode"
    /\ Returned(convertToItalicUnicode(markdown))

ConvertToStrikethrough ==
    /\ pc = "call" /\ op = "convertToStrikethrough"
    /\ Returned(convertToStrikethrough(markdown))

NextUnicode == ConvertToBoldUnicode \/ ConvertToItalicUnicode \/ ConvertToStrikethrough

SpecUnicode == InitUnicode /\ [][NextUnicode]_vars

\* the code points of a string, a lone surrogate counting as one
CodePoints(s) == LET cs == Chars(s) IN [i \in 1..Len(cs) |-> CodePointAt0(cs[i])]

AsciiUpper == 65..90
AsciiLower == 97..122
AsciiDigits == 48..57

\* C12: convertToBoldUnicode maps A-Z to U+1D400 + offset, a-z to U+1D41A +
\* offset, 0-9 to U+1D7CE + offset and every other code point to itself; the
\* output has as many code points as the input, and two different ASCII
\* letters or digits never map to the same output.
C12_BoldMapping ==
    Done("convertToBoldUnicode") =>
        LET in == CodePoints(markdown)
            out == CodePoints(result)
        IN  /\ Len(out) = Len(in)
            /\ \A i \in 1..Len(in) :
                  out[i] = IF in[i] \in AsciiUpper THEN 119808 + (in[i] - 65)
                           ELSE IF in[i] \in AsciiLower THEN 119834 + (in[i] - 97)
                           ELSE IF in[i] \in AsciiDigits THEN 120782 + (in[i] - 48)
                           ELSE in[i]
            /\ (Len(in) = 1 /\ in[1] \in AsciiUpper \cup AsciiLower \cup AsciiDigits) =>
                  \A d \in (AsciiUpper \cup AsciiLower \cup AsciiDigits) \ {in[1]} :
                      convertToBoldUnicode(<<d>>) # result

\* "Za9" became three glyphs of two code units each
C12_Witness ==
    /\ Done("convertToBoldUnicode")
    /\ markdown = <<90, 97, 57>>
    /\ Len(result) = 6

\* C13: convertToItalicUnicode maps A-Z to U+1D434 + offset and a-z to U+1D44E
\* + offset and leaves digits and every other code point unchanged; two
\* different ASCII letters never map to the same output.
C13_ItalicMapping ==
    Done("convertToItalicUnicode") =>
        LET in == CodePoints(markdown)
            out == CodePoints(result)
        IN  /\ Len(out) = Len(in)
            /\ \A i \in 1..Len(in) :
                  out[i] = IF in[i] \in AsciiUpper THEN 119860 + (in[i] - 65)
                           ELSE IF in[i] \in AsciiLower THEN 119886 + (in[i] - 97)
                           ELSE in[i]
            /\ (Len(in) = 1 /\ in[1] \in AsciiUpper \cup AsciiLower) =>
                  \A d \in (AsciiUpper \cup AsciiLower) \ {in[1]} :
                      convertToItalicUnicode(<<d>>) # result

\* "a9" and an emoji: the letter became a glyph, the rest is as it was
C13_Witness ==
    /\ Done("convertToItalicUnicode")
    /\ markdown = <<97, 57, 55357, 56832>>
    /\ Len(result) = 5
    /\ SubSeq(result, 3, 5) = <<57, 55357, 56832>>

\* the code points at the odd positions of a sequence
OddPositions(cps) == [i \in 1..((Len(cps) + 1) \div 2) |-> cps[2 * i - 1]]

\* C14: convertToStrikethrough writes U+0336 after every code point of its
\* input and never inside a surrogate pair: the output has twice as many code
\* points, every even position holds U+0336 and the odd positions are the input.
C14_Strikethrough ==
    Done("convertToStrikethrough") =>
        LET in == CodePoints(markdown)
            out == CodePoints(result)
        IN  /\ Len(out) = 2 * Len(in)
            /\ \A i \in 1..Len(in) : out[2 * i] = 822
            /\ OddPositions(out) = in
            /\ Len(result) = Len(markdown) + Len(in)

\* a text with a surrogate pair between two characters
C14_Witness ==
    /\ Done("convertToStrikethrough")
    /\ markdown = <<90, 55357, 56832, 97>>
    /\ result = <<90, 822, 55357, 56832, 822, 97, 822>>

-----------------------------------------------------------------------------
(* Claims about code, blockquotes and the dispatch                         *)

\* C15: renderCode with enableCodeBlock true puts codeBlockPrefix before every
\* line of the code text, the empty lines included, keeps the number of lines
\* and ends the block with one newline; with enableCodeBlock false it returns
\* the text and one newline.  The language annotation is not in the output.
C15_CodeBlock ==
    RenderedOne("code") =>
        LET t == tokens[1]
            in == Split(t.text, 10)
            out == Split(result, 10)
        IN  /\ IF settings.enableCodeBlock
               THEN /\ Len(out) = Len(in) + 1
                    /\ out[Len(out)] = <<>>
                    /\ \A i \in 1..Len(in) : out[i] = settings.codeBlockPrefix \o in[i]
               ELSE result = t.text \o NL
            /\ "lang" \in DOMAIN t => ~Includes(result, t.lang)

\* a block of three lines, the middle one empty, annotated and prefixed
C15_Witness ==
    /\ RenderedOne("code")
    /\ "lang" \in DOMAIN tokens[1]
    /\ settings.enableCodeBlock
    /\ settings.codeBlockPrefix = <<62, 32>>
    /\ Split(result, 10)[2] = <<62, 32>>
    /\ Len(Split(result, 10)) = 4

\* C17: renderBlockquote with enableBlockquote true puts blockquotePrefix
\* before every non-empty line of its rendered children and leaves the empty
\* lines as they are, keeping the number and the order of the lines; with
\* enableBlockquote false it returns the rendered children unchanged.
C17_Blockquote ==
    RenderedOne("blockquote") =>
        LET content == renderTokens(tokens[1].tokens, TopCtx)
            in == Split(content, 10)
            out == Split(result, 10)
        IN  IF settings.enableBlockquote
            THEN /\ Len(out) = Len(in)
                 /\ \A i \in 1..Len(in) :
                       out[i] = IF in[i] = <<>> THEN <<>>
                                ELSE settings.blockquotePrefix \o in[i]
            ELSE result = content

\* two paragraphs with an empty line between them, quoted
C17_Witness ==
    /\ RenderedOne("blockquote")
    /\ settings.enableBlockquote
    /\ LET out == Split(result, 10)
       IN  /\ Len(out) = 4
           /\ out[1] = settings.blockquotePrefix \o La
           /\ out[2] = <<>>
           /\ out[3] # <<>>

\* the literal texts of the codespans of a token tree
RECURSIVE CodespansIn(_)
CodespansIn(ts) ==
    UNION { IF ts[i].type = "codespan" THEN {ts[i].text}
            ELSE IF "tokens" \in DOMAIN ts[i] THEN CodespansIn(ts[i].tokens)
            ELSE IF "items" \in DOMAIN ts[i] THEN CodespansIn(ts[i].items)
            ELSE {}
            : i \in 1..Len(ts) }

\* C16: the literal text of a codespan is in the renderer's output unchanged,
\* between two inlineCodeWrapper strings when enableInlineCode is true and bare
\* when it is false, wherever the codespan is in the token tree (inside strong,
\* em or del too) and whatever the three decoration modes are.
C16_CodespanLiteral ==
    Done("renderTokens") =>
        \A c \in CodespansIn(tokens) :
            Includes(result, IF settings.enableInlineCode
                             THEN settings.inlineCodeWrapper \o c \o settings.inlineCodeWrapper
                             ELSE c)

\* the settings s with other values of the bullet toggle and character
BulletVariants(s) ==
    { [s EXCEPT !.enableBullet = b, !.bulletChar = c]
      : b \in BOOLEAN, c \in { <<8226>>, <<9744>> } }

\* the settings s with other values of the checkbox toggle and symbols
CheckboxVariants(s) ==
    { [s EXCEPT !.enableCheckbox = b, !.checkboxChecked = x[1], !.checkboxUnchecked = x[2]]
      : b \in BOOLEAN, x \in { <<<<9745>>, <<9744>>>>, <<<<120>>, <<8226>>>> } }

\* the line of the item of this state's call under settings s: the first line
\* of renderListItem for the item without its nested lists
ItemLineUnder(s) ==
    FirstLine(renderListItem([tokens[1] EXCEPT !.tokens = SelectSeq(@, NotList)],
                             [settings |-> s, listDepth |-> args.listDepth],
                             args.ordered, args.index))

\* C18: the list toggles are independent.  Another enableBullet or bulletChar
\* leaves the marker and the indentation of a task item and of an ordered item
\* as they are; another enableCheckbox, checkboxChecked or checkboxUnchecked
\* leaves the marker and the indentation of a non-task item as they are.
C18_ListTogglesIndependent ==
    /\ Done("getBullet") =>
          /\ (tokens[1].task \/ args.ordered) =>
                \A s \in BulletVariants(settings) :
                    getBullet(tokens[1], s, args.ordered, args.index) = result
          /\ ~tokens[1].task =>
                \A s \in CheckboxVariants(settings) :
                    getBullet(tokens[1], s, args.ordered, args.index) = result
    /\ Done("renderListItem") =>
          /\ (tokens[1].task \/ args.ordered) =>
                \A s \in BulletVariants(settings) : ItemLineUnder(s) = FirstLine(result)
          /\ ~tokens[1].task =>
                \A s \in CheckboxVariants(settings) : ItemLineUnder(s) = FirstLine(result)

\* a task item at depth 2 rendered with its symbol while the bullets are off
C18_Witness ==
    /\ Done("renderListItem")
    /\ tokens[1].task /\ ~tokens[1].checked
    /\ ~settings.enableBullet /\ settings.enableCheckbox
    /\ args.listDepth = 2
    /\ SubSeq(result, 1, 5) = INDENT_UNIT \o INDENT_UNIT \o settings.checkboxUnchecked

\* the token types the switch of renderToken names
KnownTypes ==
    { "heading", "paragraph", "text", "strong", "em", "del", "codespan", "code",
      "blockquote", "list", "link", "image", "hr", "br", "space", "checkbox", "html",
      "escape" }

\* v is a string: a finite sequence of UTF-16 code units
IsString(v) == DOMAIN v = 1..Len(v) /\ \A i \in DOMAIN v : v[i] \in 0..65535

\* C19: renderToken is total.  For every token type and every complete
\* configuration it returns a string; a token of a type the switch does not
\* name yields its raw text when it has one and the empty string otherwise;
\* rendering a token tree returns a string.
C19_RenderTokenTotal ==
    /\ Done("renderToken") =>
          /\ outcome = "returned"
          /\ IsString(result)
          /\ tokens[1].type \notin KnownTypes =>
                result = IF "raw" \in DOMAIN tokens[1] THEN tokens[1].raw ELSE <<>>
    /\ Done("renderTokens") => (outcome = "returned" /\ IsString(result))

\* a table, which the switch does not name, came out as its raw text
C19_Witness ==
    /\ Done("renderToken")
    /\ tokens[1].type = "table"
    /\ result = tokens[1].raw
    /\ settings.strikethroughMode = "remove"

-----------------------------------------------------------------------------
(* Claims about the children of a list item                                *)

\* the texts of the text leaves of a token tree in document order, a checkbox
\* counting for nothing
RECURSIVE TextLeaves(_)
TextLeaves(ts) ==
    Concat([i \in 1..Len(ts) |->
        IF ts[i].type = "checkbox" THEN <<>>
        ELSE IF "tokens" \in DOMAIN ts[i] THEN TextLeaves(ts[i].tokens)
        ELSE IF "items" \in DOMAIN ts[i] THEN TextLeaves(ts[i].items)
        ELSE IF ts[i].type = "text" THEN ts[i].text
        ELSE <<>>])

IsLetter(c) == c >= 97 /\ c <= 122

\* C21: renderListItem renders the non-list children of the item first, in
\* their order, and the nested lists after them, in their order, wherever the
\* lists stand among the children; apart from checkboxes every child is
\* rendered exactly once.
C21_ContentBeforeNested ==
    Done("renderListItem") =>
        SelectSeq(result, IsLetter) =
            TextLeaves(SelectSeq(tokens[1].tokens, NotList))
                \o TextLeaves(SelectSeq(tokens[1].tokens, IsList))

\* the item a, list(c), b, list(d) came out as a, b, c, d
C21_Witness ==
    /\ Done("renderListItem")
    /\ Len(tokens[1].tokens) = 4
    /\ tokens[1].tokens[2].type = "list"
    /\ tokens[1].tokens[3].type = "paragraph"
    /\ SelectSeq(result, IsLetter) = La \o Lb \o Lc \o Ld

\* a token tree without its checkbox tokens
RECURSIVE StripCheckboxes(_)
StripCheckboxes(ts) ==
    LET kept == SelectSeq(ts, NotCheckbox)
    IN  [i \in 1..Len(kept) |->
            IF "tokens" \in DOMAIN kept[i]
            THEN [kept[i] EXCEPT !.tokens = StripCheckboxes(@)]
            ELSE IF "items" \in DOMAIN kept[i]
            THEN [kept[i] EXCEPT !.items = StripCheckboxes(@)]
            ELSE kept[i]]

\* the checkbox tokens of a token tree
RECURSIVE CheckboxesIn(_)
CheckboxesIn(ts) ==
    UNION { IF ts[i].type = "checkbox" THEN {ts[i]}
            ELSE IF "tokens" \in DOMAIN ts[i] THEN CheckboxesIn(ts[i].tokens)
            ELSE IF "items" \in DOMAIN ts[i] THEN CheckboxesIn(ts[i].items)
            ELSE {}
            : i \in 1..Len(ts) }

\* C22: a checkbox token adds no text to the output.  A rendering is what it
\* would be with the checkbox tokens taken out of the tree, a checkbox token on
\* its own renders as the empty string, and the source text "[ ]" or "[x]" of a
\* checkbox is nowhere in the output.
C22_CheckboxNoText ==
    /\ Done("renderListItem") =>
          /\ result = renderListItem(StripCheckboxes(tokens)[1],
                                     [settings |-> settings, listDepth |-> args.listDepth],
                                     args.ordered, args.index)
          /\ \A c \in CheckboxesIn(tokens) : ~Includes(result, SubSeq(c.raw, 1, 3))
    /\ Done("renderTokens") =>
          /\ result = renderTokens(StripCheckboxes(tokens), TopCtx)
          /\ \A c \in CheckboxesIn(tokens) : ~Includes(result, SubSeq(c.raw, 1, 3))
    /\ (Done("renderToken") /\ tokens[1].type = "checkbox") => result = <<>>

\* a checked task item whose checkbox is inside its paragraph, rendered with
\* the checked symbol and the text
C22_Witness ==
    /\ Done("renderListItem")
    /\ tokens[1].task /\ tokens[1].checked
    /\ tokens[1].tokens[1].type = "paragraph"
    /\ tokens[1].tokens[1].tokens[1].type = "checkbox"
    /\ settings.enableCheckbox
    /\ args.listDepth = 0
    /\ FirstLine(result) = settings.checkboxChecked \o SPACE \o Lb

-----------------------------------------------------------------------------
(* Calls of unescapeString                                                 *)

\* a backslash, "n", "t", "r" and "a"
EscapePieces == { <<92>>, <<110>>, <<116>>, <<114>>, La }

RECURSIVE EscapeTextsOfLen(_)
EscapeTextsOfLen(n) ==
    IF n = 0 THEN {<<>>} ELSE { s \o c : s \in EscapeTextsOfLen(n - 1), c \in EscapePieces }

\* the replacement strings of at most MaxTextLen characters
EscapeTexts == UNION { EscapeTextsOfLen(n) : n \in 0..MaxTextLen }

InitUnescape ==
    /\ Pending
    /\ op = "unescapeString"
    /\ markdown \in EscapeTexts
    /\ settings = BaseSettings
    /\ tokens = <<>>
    /\ args = NoArgs

UnescapeString ==
    /\ pc = "call" /\ op = "unescapeString"
    /\ Returned(unescapeString(markdown))

NextUnescape == UnescapeString

SpecUnescape == InitUnescape /\ [][NextUnescape]_vars

\* the character an escape sequence stands for
EscapeValue(c) ==
    CASE c = 110 -> 10
      [] c = 116 -> 9
      [] c = 114 -> 13
      [] c = 92 -> 92

\* one pass from left to right: a backslash followed by n, t, r or a backslash
\* is consumed with that character, every other character is copied
RECURSIVE SinglePassFrom(_, _)
SinglePassFrom(s, i) ==
    IF i > Len(s) THEN <<>>
    ELSE IF s[i] = 92 /\ i < Len(s) /\ s[i + 1] \in {110, 116, 114, 92}
    THEN <<EscapeValue(s[i + 1])>> \o SinglePassFrom(s, i + 2)
    ELSE <<s[i]>> \o SinglePassFrom(s, i + 1)

\* C23: unescapeString converts the escape sequences in a single pass: every
\* character of the input is consumed by at most one escape, and the text an
\* escape produced is never expanded again; an escaped backslash followed by
\* "n" gives a backslash and "n".
C23_SinglePass ==
    Done("unescapeString") => result = SinglePassFrom(markdown, 1)

-----------------------------------------------------------------------------
(* Repeated calls of convertMarkdownToPlainText on one settings object     *)

\* the settings object after a call: the two filters build new arrays and no
\* statement assigns to settings or to a rule
SettingsAfterConvert_Partitioned(md, s) ==
    [s EXCEPT !.customRules = beforeRulesOf(s) \o afterRulesOf(s)]

SettingsAfterConvert(md, s) == s

\* rule lists of two rules, each with its applyBeforeConversion flag
RepeatRuleLists ==
    { rs \in RuleListsOfLen(2) :
        \A i \in 1..2 : "applyBeforeConversion" \in DOMAIN rs[i] }

RepeatSettings ==
    { [BaseSettings EXCEPT !.customRules = rs] : rs \in RepeatRuleLists }
        \cup { [BaseSettings EXCEPT !.enableMarkdownConversion = FALSE] }

RepeatMarkdowns == { La \o La \o La, <<35, 32>> \o UA \o Lb, STARS2 \o La \o STARS2 }

InitRepeat ==
    /\ Pending
    /\ op = "convertAgain"
    /\ markdown = <<>>
    /\ settings \in RepeatSettings
    /\ tokens = <<>>
    /\ args = NoArgs

\* one more call of convertMarkdownToPlainText(md, settings) on the same
\* settings object
ConvertAgain ==
    /\ op = "convertAgain"
    /\ Len(calls) < MaxCalls
    /\ \E md \in RepeatMarkdowns :
          LET r == convertMarkdownToPlainText(md, settings)
          IN  /\ markdown' = md
              /\ tokens' = r.tokens
              /\ outcome' = r.status
              /\ result' = r.value
              /\ log' = r.log
              /\ settings' = SettingsAfterConvert(md, settings)
              /\ calls' = Append(calls, [markdown |-> md, settings |-> settings,
                                         after |-> settings', status |-> outcome',
                                         value |-> result'])
    /\ pc' = "done"
    /\ UNCHANGED <<op, args, pluginVars>>

NextRepeat == ConvertAgain

SpecRepeat == InitRepeat /\ [][NextRepeat]_vars

-----------------------------------------------------------------------------
(* Claims about the list depth                                             *)

\* the pairs <<text of an item, number of list items that enclose it>> of a
\* token tree
RECURSIVE ItemDepths(_, _)
ItemDepths(ts, d) ==
    UNION { IF ts[i].type = "list" THEN ItemDepths(ts[i].items, d)
            ELSE IF ts[i].type = "list_item"
            THEN {<<ts[i].tokens[1].tokens[1].text, d>>} \cup ItemDepths(ts[i].tokens, d + 1)
            ELSE IF "tokens" \in DOMAIN ts[i] THEN ItemDepths(ts[i].tokens, d)
            ELSE {}
            : i \in 1..Len(ts) }

\* a line without the blockquote prefixes at its start
RECURSIVE Unquoted(_, _)
Unquoted(line, prefix) ==
    IF MatchesAt(line, 1, prefix, FALSE)
    THEN Unquoted(SubSeq(line, Len(prefix) + 1, Len(line)), prefix)
    ELSE line

RECURSIVE LeadingSpaces(_)
LeadingSpaces(s) ==
    IF s # <<>> /\ s[1] = 32 THEN 1 + LeadingSpaces(Tail(s)) ELSE 0

\* C25: the depth an item is indented by is the number of list items that
\* enclose it, 0 for the items of a top-level list, also when the item's list
\* is reached through a blockquote inside a list item; the items after a
\* nested list keep the depth of the items before it.
C25_DepthIsEnclosingItems ==
    (Done("renderTokens") /\ tokens \in DepthDocs) =>
        \A p \in ItemDepths(tokens, 0) :
            \E i \in 1..Len(Split(result, 10)) :
                LET line == Split(result, 10)[i]
                IN  /\ Includes(line, p[1])
                    /\ LeadingSpaces(Unquoted(line, settings.blockquotePrefix))
                           = Len(INDENT_UNIT) * p[2]

-----------------------------------------------------------------------------
(* Claims about the composition of the glyph mappings                      *)

\* the rendering of one inline token under the settings of the call
RenderedInline(token) == renderToken(token, TopCtx)

\* C26: the glyph mappings compose without interfering.  Each of
\* convertToBoldUnicode and convertToItalicUnicode maps its own output to
\* itself and the output of the other to itself, and with both decorations in
\* unicode mode the innermost of a nested strong and em alone determines the
\* glyphs: an em that holds only a strong renders as the bold mapping of the
\* text, a strong that holds only an em as the italic mapping.
C26_GlyphsCompose ==
    /\ Done("convertToBoldUnicode") =>
          /\ convertToBoldUnicode(result) = result
          /\ convertToItalicUnicode(result) = result
          /\ RenderedInline(Decorated("em", STAR1, <<Decorated("strong", STARS2, <<Text(markdown)>>)>>)) = result
    /\ Done("convertToItalicUnicode") =>
          /\ convertToItalicUnicode(result) = result
          /\ convertToBoldUnicode(result) = result
          /\ RenderedInline(Decorated("strong", STARS2, <<Decorated("em", STAR1, <<Text(markdown)>>)>>)) = result

-----------------------------------------------------------------------------
(* The plugin: stored data, presets and the arrays they refer to           *)

\* loadData() of a plugin that has stored nothing
NoData == <<>>

\* the reference of the array DEFAULT_SETTINGS.customRules
DEFAULT_RULES == 1

\* the arrays of a plugin that has just been constructed
InitialHeap == <<DEFAULT_SETTINGS.customRules>>

\* delete r[f], and r[f] = v
Without(r, f) == [k \in DOMAIN r \ {f} |-> r[k]]
WithField(r, f, v) == [k \in DOMAIN r \cup {f} |-> IF k = f THEN v ELSE r[k]]

\* a rule that one of the three migrations changes
HasLegacy(rule) ==
    "flags" \in DOMAIN rule \/ "global" \in DOMAIN rule \/ "name" \notin DOMAIN rule

\* caseInsensitive = String(flags).includes("i"); delete flags
MigrateFlags(rule) ==
    IF "flags" \in DOMAIN rule
    THEN Without(WithField(rule, "caseInsensitive", Includes(rule.flags, <<105>>)), "flags")
    ELSE rule

\* delete global; name = "" if the rule has none
MigrateGlobalAndName(rule) ==
    LET noGlobal == IF "global" \in DOMAIN rule THEN Without(rule, "global") ELSE rule
    IN  IF "name" \in DOMAIN noGlobal THEN noGlobal ELSE WithField(noGlobal, "name", "")

\* the three steps every migration applies to a rule
MigrateRule(rule) == MigrateGlobalAndName(MigrateFlags(rule))

migrateOldRuleProperties(rules) == [i \in 1..Len(rules) |-> MigrateRule(rules[i])]

\* the customRules of a preset in memory
RulesOf(preset, h) == h[preset.settings.customRules]

\* !preset.settings.customRules || preset.settings.customRules.length === 0
NeedsDefaultRules(preset, h) ==
    "customRules" \notin DOMAIN preset.settings \/ Len(RulesOf(preset, h)) = 0

\* migratePresetSettings(preset): the preset and the arrays after it, and the
\* value returned
migratePresetSettings(preset, h) ==
    LET ref == IF NeedsDefaultRules(preset, h) THEN DEFAULT_RULES
               ELSE preset.settings.customRules
    IN  [preset |-> [preset EXCEPT !.settings = WithField(@, "customRules", ref)],
         heap |-> [h EXCEPT ![ref] = migrateOldRuleProperties(@)],
         needsSave |-> NeedsDefaultRules(preset, h)
                           \/ \E i \in 1..Len(h[ref]) : HasLegacy(h[ref][i])]

\* the presets of stored data brought into memory, each with an array of its
\* own, and migrated one after the other
RECURSIVE LoadPresets(_, _, _)
LoadPresets(stored, i, acc) ==
    IF i > Len(stored) THEN acc
    ELSE LET has == "customRules" \in DOMAIN stored[i].settings
             h1 == IF has THEN Append(acc.heap, stored[i].settings.customRules)
                   ELSE acc.heap
             inMemory == IF has THEN [stored[i] EXCEPT !.settings.customRules = Len(h1)]
                         ELSE stored[i]
             m == migratePresetSettings(inMemory, h1)
         IN  LoadPresets(stored, i + 1,
                         [presets |-> Append(acc.presets, m.preset),
                          heap |-> m.heap,
                          needsSave |-> acc.needsSave \/ m.needsSave])

\* { ...DEFAULT_SETTINGS }: a new settings object whose customRules is the
\* array of DEFAULT_SETTINGS
DefaultSettingsCopy == [enableMarkdownConversion |-> TRUE, customRules |-> DEFAULT_RULES]

\* the branch of migrateSettings for the old format: Object.assign({},
\* DEFAULT_SETTINGS, data), then the migration of the rules
MigrateOldFormat(data, h, id) ==
    LET has == "customRules" \in DOMAIN data
        h1 == IF has THEN Append(h, migrateOldRuleProperties(data.customRules)) ELSE h
        oldSettings == [enableMarkdownConversion |-> data.enableMarkdownConversion,
                        customRules |-> IF has THEN Len(h1) ELSE DEFAULT_RULES]
    IN  [presets |-> <<[id |-> id, name |-> "Default", settings |-> oldSettings]>>,
         heap |-> h1, needsSave |-> TRUE]

\* migrateSettings(data); id is the value generatePresetId() returns
migrateSettings(data, h, id) ==
    IF DOMAIN data = {}
    THEN [presets |-> <<[id |-> id, name |-> "Default",
                         settings |-> DefaultSettingsCopy]>>,
          heap |-> h, needsSave |-> TRUE]
    ELSE IF "presets" \in DOMAIN data
    THEN LoadPresets(data.presets, 1, [presets |-> <<>>, heap |-> h, needsSave |-> FALSE])
    ELSE MigrateOldFormat(data, h, id)

\* what saveData(pluginSettings) writes
Stored(ps, h) ==
    [presets |-> [i \in 1..Len(ps) |-> [ps[i] EXCEPT !.settings.customRules = h[@]]]]

\* the two commands of a preset
CopyCommand(preset) ==
    [id |-> "copy-plain-text-" \o preset.id, name |-> preset.name \o " (copy)"]
SaveCommand(preset) ==
    [id |-> "save-plain-text-" \o preset.id, name |-> preset.name \o " (save)"]

\* addCommand: the host keeps one command per id
addCommand(cmds, c) == { x \in cmds : x.id # c.id } \cup {c}

\* removeCommand for every id of ids
removeCommands(cmds, ids) == { x \in cmds : \A i \in 1..Len(ids) : x.id # ids[i] }

RECURSIVE RegisterFrom(_, _, _)
RegisterFrom(ps, i, acc) ==
    IF i > Len(ps) THEN acc
    ELSE RegisterFrom(ps, i + 1,
            [ids |-> acc.ids \o <<CopyCommand(ps[i]).id, SaveCommand(ps[i]).id>>,
             commands |-> addCommand(addCommand(acc.commands, CopyCommand(ps[i])),
                                     SaveCommand(ps[i]))])

\* registerPresetCommands(): presetCommandIds and the host's commands after it
registerPresetCommands(ps, ids, cmds) ==
    RegisterFrom(ps, 1, [ids |-> <<>>, commands |-> removeCommands(cmds, ids)])

\* list.splice(start, 1) and list.splice(start, 0, x), start counted from 0
SpliceOut(list, start) == SubSeq(list, 1, start) \o SubSeq(list, start + 2, Len(list))
SpliceIn(list, start, x) ==
    LET s == IF start > Len(list) THEN Len(list) ELSE start
    IN  SubSeq(list, 1, s) \o <<x>> \o SubSeq(list, s + 1, Len(list))

\* toIndex of the drop handlers of presets.ts and custom-rules.ts
ToIndex(fromIndex, index, dropAfter) ==
    IF dropAfter
    THEN (IF fromIndex < index THEN index ELSE index + 1)
    ELSE (IF fromIndex < index THEN index - 1 ELSE index)

\* the list after a drop of the entry at fromIndex at toIndex
Reorder(list, fromIndex, toIndex) ==
    SpliceIn(SpliceOut(list, fromIndex), toIndex, list[fromIndex + 1])

-----------------------------------------------------------------------------
(* State machine of the plugin: onload, then the handlers of the settings  *)
(* tab, one action per handler                                             *)

\* the values generatePresetId() returns; it may return a value twice
PresetIds == {"p1", "p2"}

StoredRule(name, pattern) ==
    [name |-> name, pattern |-> pattern, replacement |-> <<>>,
     caseInsensitive |-> TRUE, enabled |-> TRUE]

StoredPreset(id, name, rules) ==
    [id |-> id, name |-> name,
     settings |-> [enableMarkdownConversion |-> TRUE, customRules |-> rules]]

\* a rule as older versions stored it: with the flags "g", "gi" or "", with
\* and without global, with and without a name
LegacyRules ==
    { [pattern |-> La, replacement |-> <<>>, enabled |-> TRUE, flags |-> <<103, 105>>],
      [pattern |-> La, replacement |-> <<>>, enabled |-> TRUE, flags |-> <<103>>,
       global |-> TRUE, name |-> "old"],
      [pattern |-> La, replacement |-> <<>>, enabled |-> TRUE, flags |-> <<>>,
       caseInsensitive |-> TRUE],
      [pattern |-> La, replacement |-> <<>>, enabled |-> TRUE, caseInsensitive |-> FALSE,
       global |-> TRUE] }

\* the rule lists of stored data: none, one current rule, and a legacy rule
\* alone or before a current rule
StoredRuleLists ==
    { <<>>, <<StoredRule("r1", La)>> }
        \cup { <<r>> : r \in LegacyRules }
        \cup { <<r, StoredRule("r1", La)>> : r \in LegacyRules }

\* stored data of the old format: the settings object, with or without
\* customRules
OldFormatData ==
    { [enableMarkdownConversion |-> TRUE] }
        \cup { [enableMarkdownConversion |-> TRUE, customRules |-> rs]
               : rs \in StoredRuleLists }

\* stored data of the presets format: two presets with rules of their own, a
\* preset without customRules before one with an empty list, and one preset
\* for each rule list
PresetsData ==
    { [presets |-> <<StoredPreset("p1", "A", <<StoredRule("r1", La)>>),
                     StoredPreset("p2", "B", <<StoredRule("r2", Lb), StoredRule("r3", Lc),
                                               StoredRule("r4", Ld)>>)>>],
      [presets |-> <<[id |-> "p1", name |-> "A",
                      settings |-> [enableMarkdownConversion |-> TRUE]],
                     StoredPreset("p2", "B", <<>>)>>] }
        \cup { [presets |-> <<StoredPreset("p1", "A", rs)>>] : rs \in StoredRuleLists }

\* the stored data the plugin is started on
PluginData == {NoData} \cup PresetsData \cup OldFormatData

\* the command onload registers before the commands of the presets
SaveSelectionCommand ==
    [id |-> "save-selection-to-file", name |-> "Save selection as file..."]

InitPlugin ==
    /\ pc = "unloaded"
    /\ op = "none"
    /\ args = NoArgs
    /\ markdown = <<>>
    /\ settings = BaseSettings
    /\ tokens = <<>>
    /\ outcome = "none"
    /\ result = <<>>
    /\ log = <<>>
    /\ calls = <<>>
    /\ store \in PluginData
    /\ heap = InitialHeap
    /\ presets = <<>>
    /\ presetCommandIds = <<>>
    /\ commands = {}
    /\ saved = FALSE
    /\ events = 0

\* the handler name has run on args and left the presets ps and the arrays h;
\* didSave tells whether it called saveSettings
Handled(name, a, ps, h, didSave) ==
    /\ op' = name
    /\ args' = a
    /\ presets' = ps
    /\ heap' = h
    /\ saved' = didSave
    /\ store' = IF didSave THEN Stored(ps, h) ELSE store
    /\ events' = events + 1
    /\ pc' = "ready"
    /\ UNCHANGED callVars

\* the handler called registerPresetCommands() on the presets ps
Registered(ps, cmds) ==
    LET r == registerPresetCommands(ps, presetCommandIds, cmds)
    IN  /\ presetCommandIds' = r.ids
        /\ commands' = r.commands

Ready == pc = "ready" /\ events < MaxEvents

\* onload(): loadSettings(), the save command, registerPresetCommands()
OnLoad ==
    /\ pc = "unloaded"
    /\ \E id \in PresetIds :
          LET m == migrateSettings(store, heap, id)
          IN  /\ Handled("onload", [id |-> id, data |-> store], m.presets, m.heap,
                         m.needsSave)
              /\ Registered(m.presets, addCommand(commands, SaveSelectionCommand))

\* Add Preset
AddPreset ==
    /\ Ready
    /\ \E id \in PresetIds :
          LET ps == Append(presets, [id |-> id, name |-> "New Preset",
                                     settings |-> DefaultSettingsCopy])
          IN  /\ Handled("addPreset", [id |-> id], ps, heap, TRUE)
              /\ Registered(ps, commands)

\* Duplicate of the preset at index: JSON.parse(JSON.stringify(settings))
DuplicatePreset ==
    /\ Ready
    /\ \E index \in 0..(Len(presets) - 1), id \in PresetIds :
          LET preset == presets[index + 1]
              h == Append(heap, RulesOf(preset, heap))
              duplicate == [id |-> id, name |-> preset.name \o " (copy)",
                            settings |-> [preset.settings EXCEPT !.customRules = Len(h)]]
              ps == SpliceIn(presets, index + 1, duplicate)
          IN  /\ Handled("duplicatePreset", [index |-> index, id |-> id], ps, h, TRUE)
              /\ Registered(ps, commands)

\* Delete of the preset at index, confirmed
DeletePreset ==
    /\ Ready
    /\ \E index \in 0..(Len(presets) - 1) :
          LET ps == SpliceOut(presets, index)
          IN  /\ Handled("deletePreset", [index |-> index], ps, heap, TRUE)
              /\ Registered(ps, commands)

\* a new name typed for the preset at index
RenamePreset ==
    /\ Ready
    /\ \E index \in 0..(Len(presets) - 1) :
          LET ps == [presets EXCEPT ![index + 1].name = "Renamed"]
          IN  /\ Handled("renamePreset", [index |-> index], ps, heap, TRUE)
              /\ Registered(ps, commands)

\* drop of the preset dragged from fromIndex on the preset at index
DropPreset ==
    /\ Ready
    /\ \E fromIndex, index \in 0..(Len(presets) - 1), dropAfter \in BOOLEAN :
          LET a == [fromIndex |-> fromIndex, index |-> index, dropAfter |-> dropAfter]
          IN  /\ IF fromIndex = index
                 THEN Handled("dropPreset", a, presets, heap, FALSE)
                 ELSE Handled("dropPreset", a,
                              Reorder(presets, fromIndex, ToIndex(fromIndex, index, dropAfter)),
                              heap, TRUE)
              /\ UNCHANGED <<presetCommandIds, commands>>

\* the arrays after the customRules of the preset at p become rules
WithRules(p, rules) == [heap EXCEPT ![presets[p].settings.customRules] = rules]

\* a handler of the custom rules section of the preset at p has run
RulesHandled(name, a, p, rules, didSave) ==
    /\ Handled(name, a, presets, WithRules(p, rules), didSave)
    /\ UNCHANGED <<presetCommandIds, commands>>

\* the rule Add Rule pushes
NewRule ==
    [name |-> "", pattern |-> <<>>, replacement |-> <<>>, caseInsensitive |-> TRUE,
     enabled |-> TRUE, applyBeforeConversion |-> FALSE]

\* the rule Duplicate builds
DuplicateOf(rule) ==
    [name |-> IF rule.name # "" THEN rule.name \o " (copy)" ELSE "",
     pattern |-> rule.pattern, replacement |-> rule.replacement,
     caseInsensitive |-> rule.caseInsensitive, enabled |-> rule.enabled]

\* Add Rule in the editor of the preset at p
AddRule ==
    /\ Ready
    /\ \E p \in 1..Len(presets) :
          RulesHandled("addRule", [preset |-> p], p,
                       Append(RulesOf(presets[p], heap), NewRule), TRUE)

\* the toggle of the rule at index
ToggleRule ==
    /\ Ready
    /\ \E p \in 1..Len(presets) :
          \E index \in 0..(Len(RulesOf(presets[p], heap)) - 1) :
              RulesHandled("toggleRule", [preset |-> p, index |-> index], p,
                           [RulesOf(presets[p], heap) EXCEPT ![index + 1].enabled = ~@],
                           TRUE)

\* a pattern typed in the rule editor of the rule at index
EditRule ==
    /\ Ready
    /\ \E p \in 1..Len(presets) :
          \E index \in 0..(Len(RulesOf(presets[p], heap)) - 1) :
              RulesHandled("editRule", [preset |-> p, index |-> index], p,
                           [RulesOf(presets[p], heap) EXCEPT ![index + 1].pattern = Ld],
                           TRUE)

\* Duplicate of the rule at index
DuplicateRule ==
    /\ Ready
    /\ \E p \in 1..Len(presets) :
          \E index \in 0..(Len(RulesOf(presets[p], heap)) - 1) :
              LET rules == RulesOf(presets[p], heap)
              IN  RulesHandled("duplicateRule", [preset |-> p, index |-> index], p,
                               SpliceIn(rules, index + 1, DuplicateOf(rules[index + 1])),
                               TRUE)

\* Delete of the rule at index, confirmed
DeleteRule ==
    /\ Ready
    /\ \E p \in 1..Len(presets) :
          \E index \in 0..(Len(RulesOf(presets[p], heap)) - 1) :
              RulesHandled("deleteRule", [preset |-> p, index |-> index], p,
                           SpliceOut(RulesOf(presets[p], heap), index), TRUE)

\* drop of the rule dragged from fromIndex on the rule at index
\* (custom-rules.ts)
DropRule ==
    /\ Ready
    /\ \E p \in 1..Len(presets) :
          \E fromIndex, index \in 0..(Len(RulesOf(presets[p], heap)) - 1),
             dropAfter \in BOOLEAN :
              LET a == [preset |-> p, fromIndex |-> fromIndex, index |-> index,
                        dropAfter |-> dropAfter]
                  rules == RulesOf(presets[p], heap)
              IN  IF fromIndex = index
                  THEN RulesHandled("dropRule", a, p, rules, FALSE)
                  ELSE RulesHandled("dropRule", a, p,
                                    Reorder(rules, fromIndex,
                                            ToIndex(fromIndex, index, dropAfter)),
                                    TRUE)

\* toIndex of the drop handler of part_004
ToIndexBefore(fromIndex, index) == IF fromIndex < index THEN index - 1 ELSE index

\* drop of the rule dragged from fromIndex on the upper or the lower half of
\* the rule at index (part_004)
DropRuleBefore ==
    /\ Ready
    /\ \E p \in 1..Len(presets) :
          \E fromIndex, index \in 0..(Len(RulesOf(presets[p], heap)) - 1),
             dropAfter \in BOOLEAN :
              LET a == [preset |-> p, fromIndex |-> fromIndex, index |-> index,
                        dropAfter |-> dropAfter]
                  rules == RulesOf(presets[p], heap)
              IN  IF fromIndex = index
                  THEN RulesHandled("dropRuleBefore", a, p, rules, FALSE)
                  ELSE RulesHandled("dropRuleBefore", a, p,
                                    Reorder(rules, fromIndex, ToIndexBefore(fromIndex, index)),
                                    TRUE)

NextPlugin ==
    \/ OnLoad
    \/ AddPreset
    \/ DuplicatePreset
    \/ DeletePreset
    \/ RenamePreset
    \/ DropPreset
    \/ AddRule
    \/ ToggleRule
    \/ EditRule
    \/ DuplicateRule
    \/ DeleteRule
    \/ DropRule
    \/ DropRuleBefore

SpecPlugin == InitPlugin /\ [][NextPlugin]_vars

-----------------------------------------------------------------------------
(* Claims about the presets and their rules                                *)

\* the handlers of the custom rules section
RuleHandlers ==
    {"addRule", "toggleRule", "editRule", "duplicateRule", "deleteRule", "dropRule",
     "dropRuleBefore"}

\* C27: presets own their settings independently.  A handler of the custom
\* rules section run on one preset (add, edit, toggle, duplicate, reorder,
\* delete) changes neither the customRules of another preset nor
\* DEFAULT_SETTINGS.customRules, however the presets were created.
C27_PresetsIndependent ==
    [][op' \in RuleHandlers =>
          /\ \A q \in 1..Len(presets) :
                q # args'.preset
                    => heap'[presets[q].settings.customRules]
                           = heap[presets[q].settings.customRules]
          /\ heap'[DEFAULT_RULES] = heap[DEFAULT_RULES]]_vars

\* the list a drop handler reorders, in the arrays h and the presets ps: the
\* presets for the handler of presets.ts, the customRules of the preset for
\* the handlers of the custom rules section
DropList(name, a, ps, h) ==
    IF name = "dropPreset" THEN ps ELSE h[ps[a.preset].settings.customRules]

DropHandlers == {"dropPreset", "dropRule", "dropRuleBefore"}

\* the entry at position k of after is the dragged entry of before, the other
\* entries are those of before in their order, and the target is the entry
\* right after it (dropAfter false) or right before it (dropAfter true)
MovedTo(before, after, a, k) ==
    /\ after[k] = before[a.fromIndex + 1]
    /\ SpliceOut(after, k - 1) = SpliceOut(before, a.fromIndex)
    /\ IF a.dropAfter
       THEN k > 1 /\ after[k - 1] = before[a.index + 1]
       ELSE k < Len(after) /\ after[k + 1] = before[a.index + 1]

\* C28: a drop handler that reorders the custom rules or the presets yields a
\* permutation.  The length and the entries stay, the dragged entry ends right
\* before the target when dropped on its upper half and right after it when
\* dropped on its lower half, the other entries keep their order, and a drop
\* of an entry on itself changes nothing and saves nothing.
C28_DropPermutation ==
    [][op' \in DropHandlers =>
          LET before == DropList(op', args', presets, heap)
              after == DropList(op', args', presets', heap')
          IN  IF args'.fromIndex = args'.index
              THEN after = before /\ ~saved' /\ store' = store
              ELSE /\ Len(after) = Len(before)
                   /\ \E k \in 1..Len(after) : MovedTo(before, after, args', k)]_vars

\* the command ids of the presets ps, a copy and a save id for each, in the
\* order of the presets
CommandIdsOf(ps) ==
    Concat([i \in 1..Len(ps) |->
               <<"copy-plain-text-" \o ps[i].id, "save-plain-text-" \o ps[i].id>>])

\* the handlers that call registerPresetCommands()
RegisteringHandlers ==
    {"onload", "addPreset", "duplicatePreset", "deletePreset", "renamePreset"}

\* C29: after registerPresetCommands() presetCommandIds is the copy and save
\* id of every preset in preset order, and after any sequence of add,
\* duplicate, delete and rename the commands registered with the host are
\* those of the current presets, one pair for each preset under its current
\* name: the ids recorded before are removed, none stays behind and none
\* occurs twice.
C29_CommandsMatchPresets ==
    pc = "ready" =>
        /\ op \in RegisteringHandlers => presetCommandIds = CommandIdsOf(presets)
        /\ { c.id : c \in commands \ {SaveSelectionCommand} }
               = { presetCommandIds[i] : i \in 1..Len(presetCommandIds) }
        /\ \A i \in 1..Len(presets) :
              CopyCommand(presets[i]) \in commands /\ SaveCommand(presets[i]) \in commands
        /\ Cardinality(commands \ {SaveSelectionCommand}) = 2 * Len(presets)
        /\ \A i, j \in 1..Len(presetCommandIds) :
              i # j => presetCommandIds[i] # presetCommandIds[j]

-----------------------------------------------------------------------------
(* Claims about loadSettings                                               *)

\* the rules stored for the preset at p of the data loaded; none if the data
\* holds no rule list for it
StoredRulesOf(data, p) ==
    IF DOMAIN data = {} THEN <<>>
    ELSE IF "presets" \in DOMAIN data
    THEN (IF "customRules" \in DOMAIN data.presets[p].settings
          THEN data.presets[p].settings.customRules ELSE <<>>)
    ELSE (IF "customRules" \in DOMAIN data THEN data.customRules ELSE <<>>)

\* C30: after loadSettings, for stored data of every shape (none, the presets
\* format, the old format of one settings object), presets is defined; without
\* data it is the single preset "Default" with the default settings; every
\* preset has a non-empty customRules; no rule has flags or global, every rule
\* has a name, and caseInsensitive is true exactly when the flags held "i";
\* and a second migration of what the first one left changes nothing and asks
\* for no save.
C30_LoadSettings ==
    (pc = "ready" /\ op = "onload") =>
        /\ DOMAIN args.data = {} =>
              /\ Len(presets) = 1
              /\ presets[1].name = "Default"
              /\ presets[1].settings.enableMarkdownConversion
              /\ RulesOf(presets[1], heap) = DEFAULT_SETTINGS.customRules
        /\ \A p \in 1..Len(presets) :
              LET rules == RulesOf(presets[p], heap)
                  stored == StoredRulesOf(args.data, p)
              IN  /\ Len(rules) > 0
                  /\ \A i \in 1..Len(rules) :
                        /\ "flags" \notin DOMAIN rules[i]
                        /\ "global" \notin DOMAIN rules[i]
                        /\ "name" \in DOMAIN rules[i]
                  /\ \A i \in 1..Len(stored) :
                        "flags" \in DOMAIN stored[i]
                            => rules[i].caseInsensitive = Includes(stored[i].flags, <<105>>)
        /\ LET again == migrateSettings(store, InitialHeap, args.id)
           IN  /\ ~again.needsSave
               /\ Stored(again.presets, again.heap) = store

====
